---- MODULE Spec2Model ----
(***************************************************************************)
(* A model of the Mun runtime's reflection and marshalling layer           *)
(* (mun_runtime: struct.rs, reflection.rs, marshal.rs, macros.rs), of the  *)
(* ABI type descriptors it reads (mun_abi: type_info.rs) and of the        *)
(* mark-and-sweep collector and the memory mapper it drives (mun_memory:   *)
(* gc, mapping).  Memory is modelled at byte level: every object is a      *)
(* sequence of bytes, and a GC struct field holds the 8 bytes of a GcPtr.  *)
(***************************************************************************)
EXTENDS Integers, Sequences, FiniteSets, TLC

\* ------------------------------------------------------------------ bounds

\* Handles (indirection table entries) the collector can hand out: 1..MaxHandles.
MaxHandles == 3

\* StructRefs alive at a time (held by the host, or kept inside an invocation error).
MaxRefs == 3

\* Fields of a struct layout that is diffed against another.
MaxFields == 2

\* -------------------------------------------------------------- constants

\* Size of a GcPtr in bytes (64-bit target).
PtrSize == 8

\* ------------------------------------------------------------- type identity

\* md5 of a type name, as an abstract 128-bit value: distinct names of the
\* universe hash to distinct values.
md5(name) ==
  CASE name = "core::u8"    -> 11
    [] name = "core::bool"  -> 12
    [] name = "core::i64"   -> 13
    [] name = "core::empty" -> 14
    [] name = "struct"      -> 15
    [] name = "Foo"         -> 16
    [] name = "Bar"         -> 17
    [] name = "core::i8"    -> 18
    [] name = "core::u16"   -> 19
    [] name = "core::f64"   -> 20
    [] name = "@core::int"   -> 21
    [] name = "@core::float" -> 22
    [] name = "@core::bool"  -> 23
    [] name = "@core::empty" -> 24
    [] OTHER                -> 10

\* std::mem::size_of::<$ty>() and align_of::<$ty>() of the primitives in use.
size_of(ty) ==
  CASE ty = "u8" -> 1 [] ty = "bool" -> 1 [] ty = "i64" -> 8
    [] ty = "i8" -> 1 [] ty = "u16" -> 2 [] ty = "f64" -> 8 [] OTHER -> 0

NoStruct == [field_names |-> <<>>, field_types |-> <<>>, field_offsets |-> <<>>,
             memory_kind |-> "None"]

\* HasStaticTypeInfo::type_info() of a primitive $ty: name "core::$ty", guid the
\* md5 of that name, group FundamentalTypes, size and alignment those of $ty.
static_type_info(ty) ==
  [guid         |-> md5("core::" \o ty),
   name         |-> "core::" \o ty,
   size_in_bits |-> size_of(ty) * 8,
   alignment    |-> size_of(ty),
   group        |-> "FundamentalTypes",
   struct_info  |-> NoStruct]

\* ------------------------------------------ compiler backend (mun_codegen)

\* The types of the language the backend makes descriptors for, by their
\* constructor; a struct is named by its name.
MunFundamentals == {"Float", "Int", "Bool"}
MunStructs == {"Foo", "Bar"}

\* ir::ty::TypeInfo::new: the guid is the md5 of the name.
ir_TypeInfo_new(name, group) ==
  [guid |-> md5(name), name |-> name, group |-> group]

\* impl PartialEq and impl Hash for ir::ty::TypeInfo: the guid, nothing else.
ir_TypeInfo_eq(a, b) == a.guid = b.guid
ir_TypeInfo_hash(a) == <<a.guid>>

\* type_info_query: the TypeInfo the backend makes for a type of the language.
type_info_query(ty) ==
  LET name == CASE ty = "Float" -> "@core::float"
                [] ty = "Int"   -> "@core::int"
                [] ty = "Bool"  -> "@core::bool"
                [] ty \in MunStructs -> ty
      group == IF ty \in MunStructs THEN "StructTypes" ELSE "FundamentalTypes"
  IN ir_TypeInfo_new(name, group)

\* ir_query: the native type a value of a fundamental type is compiled to.
ir_query(ty) ==
  CASE ty = "Float" -> "f64" [] ty = "Int" -> "i64" [] ty = "Bool" -> "bool"

\* The abi::TypeInfo the backend writes into the compiled module for a
\* fundamental type: guid, name and group of its TypeInfo, size and alignment
\* of the native type.
abi_from_ir(ir, size) ==
  [guid         |-> ir.guid,
   name         |-> ir.name,
   size_in_bits |-> size * 8,
   alignment    |-> size,
   group        |-> ir.group,
   struct_info  |-> NoStruct]

abi_type_info(ty) == abi_from_ir(type_info_query(ty), size_of(ir_query(ty)))

\* The type of the language a descriptor of the module stands for.
MunTypeOf(name) ==
  CASE name = "@core::int" -> "Int" [] name = "@core::float" -> "Float"
    [] name = "@core::bool" -> "Bool"

\* ------------------------------------------------ descriptors of the module

\* A descriptor is named by <<type name, module version>>; the primitives'
\* descriptors are shared by every version (version 0).
u8Ty   == <<"core::u8", 0>>
boolTy == <<"core::bool", 0>>
i64Ty  == <<"core::i64", 0>>
u16Ty  == <<"core::u16", 0>>
BarTy  == <<"Bar", 1>>
FooTy1 == <<"Foo", 1>>
FooTy2 == <<"Foo", 2>>
FooTy3 == <<"Foo", 3>>
IntTy   == <<"@core::int", 0>>
FloatTy == <<"@core::float", 0>>
BoolTy  == <<"@core::bool", 0>>

StructTypeInfo(name, bits, align, struct) ==
  [guid |-> md5(name), name |-> name, size_in_bits |-> bits, alignment |-> align,
   group |-> "StructTypes", struct_info |-> struct]

\* abi::TypeInfo (with the abi::StructInfo that follows it in memory) of every
\* descriptor the compiled module carries:
\*   struct(value) Bar { x: u8, y: bool }
\*   struct(gc)    Foo { next: Foo, v: Bar }              (version 1)
\*   struct(gc)    Foo { flag: u8, next: Foo, v: Bar }    (version 2)
\*   struct(gc)    Foo { flag: u8, next: Foo }            (version 3)
TypeInfoOf(key) ==
  CASE key = u8Ty   -> static_type_info("u8")
    [] key = boolTy -> static_type_info("bool")
    [] key = i64Ty  -> static_type_info("i64")
    [] key = u16Ty  -> static_type_info("u16")
    [] key = BarTy  ->
         StructTypeInfo("Bar", 16, 1,
           [field_names |-> <<"x", "y">>, field_types |-> <<u8Ty, boolTy>>,
            field_offsets |-> <<0, 1>>, memory_kind |-> "Value"])
    [] key = FooTy1 ->
         StructTypeInfo("Foo", 80, 8,
           [field_names |-> <<"next", "v">>, field_types |-> <<FooTy1, BarTy>>,
            field_offsets |-> <<0, 8>>, memory_kind |-> "GC"])
    [] key = FooTy2 ->
         StructTypeInfo("Foo", 144, 8,
           [field_names |-> <<"flag", "next", "v">>,
            field_types |-> <<u8Ty, FooTy2, BarTy>>,
            field_offsets |-> <<0, 8, 16>>, memory_kind |-> "GC"])
    [] key = FooTy3 ->
         StructTypeInfo("Foo", 128, 8,
           [field_names |-> <<"flag", "next">>, field_types |-> <<u8Ty, FooTy3>>,
            field_offsets |-> <<0, 8>>, memory_kind |-> "GC"])
    [] key[2] = 0 /\ key[1] \in {"@core::int", "@core::float", "@core::bool"} ->
         abi_type_info(MunTypeOf(key[1]))

TypeKeys == {u8Ty, boolTy, i64Ty, u16Ty, BarTy, FooTy1, FooTy2, FooTy3}

\* The descriptors of the fundamental types of the language.
BackendKeys == {IntTy, FloatTy, BoolTy}

\* A comparison of descriptors field by field, as a derived PartialEq makes it.
TypeInfo_eq_derived(a, b) == a = b

\* impl PartialEq for abi::TypeInfo: the guids are compared, nothing else.
TypeInfo_eq(a, b) == a.guid = b.guid

\* impl Hash for abi::TypeInfo: what the hasher is fed, the guid.
TypeInfo_hash(a) == <<a.guid>>

\* TypeGroup::is_struct
is_struct(group) == group = "StructTypes"

\* TypeInfo::as_struct: the StructInfo iff the group is StructTypes.
as_struct(type_info) ==
  IF is_struct(type_info.group) THEN type_info.struct_info ELSE NoStruct

\* A u32 is held as its two 16-bit halves, so that the values next to the 32-bit
\* maximum can be told from those that wrapped around.
to_u32(n) == [hi |-> n \div 65536, lo |-> n % 65536]

\* x + n in u32 arithmetic, for a small n: the wrapped sum, and whether it overflowed.
u32_add(x, n) ==
  LET lo == x.lo + n
      hi == x.hi + lo \div 65536
  IN [value |-> [hi |-> hi % 65536, lo |-> lo % 65536], overflow |-> hi >= 65536]

\* x / 8 in u32 arithmetic.
u32_div8(x) == [hi |-> x.hi \div 8, lo |-> (x.hi % 8) * 8192 + x.lo \div 8]

\* try_into::<usize>() of a u32 on a target whose usize has 32 bits or more.
as_usize(x) == x.hi * 65536 + x.lo

\* ((self.size_in_bits + 7) / 8) of a u32 size_in_bits.  The addition overflows for
\* the seven greatest values: a build with overflow checks panics there, a build
\* without them goes on with the wrapped sum.
size_in_bytes_u32(size_in_bits, overflow_checks) ==
  LET sum == u32_add(size_in_bits, 7)
  IN IF sum.overflow /\ overflow_checks
     THEN [panicked |-> TRUE, value |-> to_u32(0)]
     ELSE [panicked |-> FALSE, value |-> u32_div8(sum.value)]

\* TypeInfo::size_in_bytes of a descriptor of the module (none of their sizes is
\* near the 32-bit maximum: every build returns the same).
size_in_bytes(type_info) ==
  as_usize(size_in_bytes_u32(to_u32(type_info.size_in_bits), FALSE).value)

\* StructInfo::find_field_index: linear scan of the field names; 0 when absent.
find_field_index(struct_info, field_name) ==
  IF \E i \in 1..Len(struct_info.field_names) : struct_info.field_names[i] = field_name
  THEN CHOOSE i \in 1..Len(struct_info.field_names) :
         /\ struct_info.field_names[i] = field_name
         /\ \A j \in 1..(i - 1) : struct_info.field_names[j] # field_name
  ELSE 0

\* ------------------------------------------------------------------- bytes

\* A number as it lies in memory, little endian, in len bytes (two's complement
\* for a negative one); a GcPtr takes PtrSize bytes.
RECURSIVE le_bytes(_, _)
le_bytes(n, len) == IF len = 0 THEN <<>> ELSE <<n % 256>> \o le_bytes(n \div 256, len - 1)

RECURSIVE le_value(_)
le_value(bytes) ==
  IF bytes = <<>> THEN 0 ELSE bytes[1] + 256 * le_value(Tail(bytes))

Zeroes(len) == [i \in 1..len |-> 0]

\* ptr.add(offset) read for len bytes
ReadBytes(mem, offset, len) == [i \in 1..len |-> mem[offset + i]]

\* ptr::copy_nonoverlapping / a store of len(bytes) bytes at offset
WriteBytes(mem, offset, bytes) ==
  [i \in 1..Len(mem) |->
     IF i > offset /\ i <= offset + Len(bytes) THEN bytes[i - offset] ELSE mem[i]]

\* ------------------------------------------------------------------- state

VARIABLES
  gc,       \* the collector: objects (the indirection table) and memory
  refs,     \* refs[h]: the StructRefs to handle h that the host holds
  err,      \* the invocation error the host holds (its arguments are kept in it)
  version,  \* the version of the loaded module (its descriptor and function tables)
  reload,   \* the step the reload protocol is at
  last,     \* the outcome of the last operation, as returned to the host
  retry     \* where the host is inside retry() or wait(), if it is

vars == <<gc, refs, err, version, reload, last, retry>>

\* The host is in neither retry() nor wait().
NoRetry == [mode |-> "none", updated |-> FALSE]

Handles == 1..MaxHandles
\* Storage regions; one more than handles, for the copy a migration makes.
Addrs == 1..(MaxHandles + 1)

\* An indirection table entry that names no object.
NoObj == [ty |-> <<"", 0>>, ptr |-> 0, roots |-> 0]

Live(g, h) == h \in Handles /\ g.objects[h] # NoObj

\* ----------------------------------------------------- collector (mun_memory)

\* GcRuntime::ptr_type: the descriptor the object was tagged with.
ptr_type(g, h) == TypeInfoOf(g.objects[h].ty)

\* GcPtr::deref: the object's bytes, through the indirection table.
deref(g, h) == g.memory[g.objects[h].ptr]

\* A store through deref_mut.
store(g, h, offset, bytes) ==
  [g EXCEPT !.memory[g.objects[h].ptr] = WriteBytes(@, offset, bytes)]

FreeHandles(g) == {h \in Handles : g.objects[h] = NoObj}
FreeAddrs(g) == {a \in Addrs : g.memory[a] = <<>>}
Least(S) == CHOOSE x \in S : \A y \in S : x <= y

\* GcRuntime::alloc: a zero-initialized region of the descriptor's size, tagged and
\* registered in the indirection table; the new handle is returned with the heap.
gc_alloc(g, ty) ==
  LET h == Least(FreeHandles(g))
      a == Least(FreeAddrs(g))
  IN [gc |-> [objects |-> [g.objects EXCEPT ![h] = [ty |-> ty, ptr |-> a, roots |-> 0]],
              memory  |-> [g.memory EXCEPT ![a] = Zeroes(size_in_bytes(TypeInfoOf(ty)))]],
      handle |-> h]

\* GcRuntime::root / unroot: the liveness count of the object.
gc_root(g, h) == [g EXCEPT !.objects[h].roots = @ + 1]
gc_unroot(g, h) == [g EXCEPT !.objects[h].roots = @ - 1]

\* The bytes a field of type ty takes in its struct: a GcPtr for a struct(gc),
\* the value itself otherwise.
field_size(ty) ==
  IF as_struct(TypeInfoOf(ty)).memory_kind = "GC" THEN PtrSize
  ELSE size_in_bytes(TypeInfoOf(ty))

\* The handles an object's struct(gc) fields hold (null is no handle).
trace(g, h) ==
  LET s == as_struct(ptr_type(g, h))
  IN {p \in Handles :
        \E i \in 1..Len(s.field_types) :
          /\ as_struct(TypeInfoOf(s.field_types[i])).memory_kind = "GC"
          /\ p = le_value(ReadBytes(deref(g, h), s.field_offsets[i], PtrSize))}

\* The mark phase: from every rooted object, follow the struct(gc) fields.
RECURSIVE mark_from(_, _, _)
mark_from(g, gray, black) ==
  IF gray = {} THEN black
  ELSE LET h == Least(gray)
           found == {p \in trace(g, h) : Live(g, p) /\ p \notin black \cup {h}}
       IN mark_from(g, (gray \cup found) \ {h}, black \cup {h})

mark(g) == mark_from(g, {h \in Handles : Live(g, h) /\ g.objects[h].roots > 0}, {})

\* The sweep phase: every object not marked is reclaimed, its memory returned
\* and its indirection table entry invalidated.
sweep(g, marked) ==
  [objects |-> [h \in Handles |-> IF h \in marked THEN g.objects[h] ELSE NoObj],
   memory  |-> [a \in Addrs |->
                  IF \E h \in marked : g.objects[h].ptr = a THEN g.memory[a] ELSE <<>>]]

collect(g) == sweep(g, mark(g))

\* ------------------------------------------------ reflection (mun_runtime)

\* The native types of the host: a value is [ty |-> its Rust type, val |-> a number],
\* the number being the handle for a StructRef and 0 or 1 for a bool.
PrimitiveTypes == {"u8", "bool", "i64", "i8", "u16", "f64"}
SignedTypes == {"i8", "i64"}
RustTypes == PrimitiveTypes \cup {"unit", "StructRef"}

Value(ty, val) == [ty |-> ty, val |-> val]
Unit == Value("unit", 0)

\* ReturnTypeReflection::type_name of a static type T.
return_type_name(T) ==
  CASE T = "StructRef" -> "struct"
    [] T = "unit"      -> "core::empty"
    [] OTHER           -> static_type_info(T).name

\* ReturnTypeReflection::type_guid of a static type T: the primitives override
\* the default md5 of type_name with their static type info's guid.
return_type_guid(T) ==
  IF T \in PrimitiveTypes THEN static_type_info(T).guid ELSE md5(return_type_name(T))

\* A type_guid that reports the static type of the wrapper for a StructRef.
argument_type_guid_static(g, arg) ==
  IF arg.ty = "StructRef" THEN md5("struct") ELSE static_type_info(arg.ty).guid

\* ArgumentReflection::type_guid(&self, runtime): a StructRef reports the guid of
\* its object's runtime type tag.
argument_type_guid(g, arg) ==
  IF arg.ty = "StructRef" THEN ptr_type(g, arg.val).guid
  ELSE static_type_info(arg.ty).guid

\* ArgumentReflection::type_name(&self, runtime)
argument_type_name(g, arg) ==
  IF arg.ty = "StructRef" THEN ptr_type(g, arg.val).name
  ELSE static_type_info(arg.ty).name

Ok == [ok |-> TRUE, expected |-> "", found |-> ""]
Mismatch(expected, found) == [ok |-> FALSE, expected |-> expected, found |-> found]

\* reflection::equals_argument_type
equals_argument_type(g, type_info, arg) ==
  IF type_info.guid # argument_type_guid(g, arg)
  THEN Mismatch(type_info.name, argument_type_name(g, arg))
  ELSE Ok

\* An equals_return_type that compares the guids whatever the group is.
equals_return_type_nominal(T, type_info) ==
  IF type_info.guid # return_type_guid(T)
  THEN Mismatch(type_info.name, return_type_name(T))
  ELSE Ok

\* reflection::equals_return_type::<T>
equals_return_type(T, type_info) ==
  IF type_info.group = "FundamentalTypes"
  THEN IF type_info.guid # return_type_guid(T)
       THEN Mismatch(type_info.name, return_type_name(T))
       ELSE Ok
  ELSE IF return_type_guid("StructRef") # return_type_guid(T)
       THEN Mismatch("struct", return_type_name(T))
       ELSE Ok

\* ------------------------------------------------- StructRef (mun_runtime)

\* The part of the runtime a field access or an invocation works on.
World(g, r) == [gc |-> g, refs |-> r]

\* A StructRef::new that wraps the handle without registering a root.
StructRef_new_unrooted(w, h) ==
  World(w.gc, [w.refs EXCEPT ![h] = @ + 1])

\* StructRef::new: asserts that the handle's type is a struct, and roots it.
StructRef_new(w, h) ==
  World(gc_root(w.gc, h), [w.refs EXCEPT ![h] = @ + 1])

\* A drop of a StructRef that leaves its root registration behind.
StructRef_drop_kept(w, h) ==
  World(w.gc, [w.refs EXCEPT ![h] = @ - 1])

\* Drop of a StructRef (of its GcRootPtr): the root registration is removed.
StructRef_drop(w, h) ==
  World(gc_unroot(w.gc, h), [w.refs EXCEPT ![h] = @ - 1])

\* A value that goes out of scope: a StructRef is dropped, a primitive is not.
drop_value(w, value) ==
  IF value.ty = "StructRef" THEN StructRef_drop(w, value.val) ELSE w

\* An into_raw that forgets the StructRef instead of dropping it: the root
\* registration stays behind.
marshal_forgetting(w, value) ==
  IF value.ty = "StructRef"
  THEN World(w.gc, [w.refs EXCEPT ![value.val] = @ - 1])
  ELSE w

\* ArgumentReflection::marshal: a StructRef is consumed by into_raw, which
\* returns its handle and drops its root; a primitive is passed as it is.
marshal(w, value) == drop_value(w, value)

\* A marshal_from_ptr that allocates the object of a struct(value) and leaves it
\* zeroed.
RawStruct_marshal_from_ptr_uncopied(w, h, offset, type_key) ==
  IF as_struct(TypeInfoOf(type_key)).memory_kind = "Value"
  THEN LET a == gc_alloc(w.gc, type_key)
       IN [w |-> StructRef_new(World(a.gc, w.refs), a.handle),
           value |-> Value("StructRef", a.handle)]
  ELSE LET gc_handle == le_value(ReadBytes(deref(w.gc, h), offset, PtrSize))
       IN [w |-> StructRef_new(w, gc_handle), value |-> Value("StructRef", gc_handle)]

\* <RawStruct as Marshal<StructRef>>::marshal_from_ptr at offset of object h.
RawStruct_marshal_from_ptr(w, h, offset, type_key) ==
  LET type_info == TypeInfoOf(type_key)
      struct_info == as_struct(type_info)
  IN IF struct_info.memory_kind = "Value"
     THEN LET a == gc_alloc(w.gc, type_key)
              size == size_in_bytes(type_info)
              copied == store(a.gc, a.handle, 0, ReadBytes(deref(w.gc, h), offset, size))
          IN [w |-> StructRef_new(World(copied, w.refs), a.handle),
              value |-> Value("StructRef", a.handle)]
     ELSE LET gc_handle == le_value(ReadBytes(deref(w.gc, h), offset, PtrSize))
          IN [w |-> StructRef_new(w, gc_handle), value |-> Value("StructRef", gc_handle)]

\* The value of type T that bytes are the representation of: two's complement
\* for the signed integers.
from_le_bytes(T, bytes) ==
  IF T \in SignedTypes /\ bytes[Len(bytes)] >= 128
  THEN le_value(bytes) - 2 ^ (8 * Len(bytes))
  ELSE le_value(bytes)

\* A read that takes the bytes for an unsigned number whatever T is.
primitive_marshal_from_ptr_unsigned(w, h, offset, T) ==
  [w |-> w, value |-> Value(T, le_value(ReadBytes(deref(w.gc, h), offset, size_of(T))))]

\* <T as Marshal<T>>::marshal_from_ptr: ptr.read() of size_of::<T>() bytes.
primitive_marshal_from_ptr(w, h, offset, T) ==
  [w |-> w, value |-> Value(T, from_le_bytes(T, ReadBytes(deref(w.gc, h), offset, size_of(T))))]

\* Marshal::marshal_from_ptr::<T::Marshalled>
marshal_from_ptr(w, h, offset, type_key, T) ==
  IF T = "StructRef" THEN RawStruct_marshal_from_ptr(w, h, offset, type_key)
  ELSE primitive_marshal_from_ptr(w, h, offset, T)

\* What marshal_from_ptr requires of the heap: a struct(gc) field holds the
\* handle of a live struct (StructRef::new asserts on its type), and the copy of
\* a struct(value) needs a free handle.
can_marshal_from_ptr(w, h, offset, type_key, T) ==
  T = "StructRef" =>
    IF as_struct(TypeInfoOf(type_key)).memory_kind = "Value"
    THEN FreeHandles(w.gc) # {}
    ELSE LET p == le_value(ReadBytes(deref(w.gc, h), offset, PtrSize))
         IN Live(w.gc, p) /\ is_struct(ptr_type(w.gc, p).group)

\* A marshal_to_ptr that stores the handle whatever the memory kind is.
RawStruct_marshal_to_ptr_by_handle(g, value, h, offset, type_key) ==
  store(g, h, offset, le_bytes(value.val, PtrSize))

\* <RawStruct as Marshal<StructRef>>::marshal_to_ptr at offset of object h.
RawStruct_marshal_to_ptr(g, value, h, offset, type_key) ==
  LET type_info == TypeInfoOf(type_key)
      struct_info == as_struct(type_info)
  IN IF struct_info.memory_kind = "Value"
     THEN store(g, h, offset, ReadBytes(deref(g, value.val), 0, size_in_bytes(type_info)))
     ELSE store(g, h, offset, le_bytes(value.val, PtrSize))

\* <T as Marshal<T>>::marshal_to_ptr: *ptr = value.
primitive_marshal_to_ptr(g, value, h, offset) ==
  store(g, h, offset, le_bytes(value.val, size_of(value.ty)))

\* Marshal::marshal_to_ptr
marshal_to_ptr(g, value, h, offset, type_key) ==
  IF value.ty = "StructRef" THEN RawStruct_marshal_to_ptr(g, value, h, offset, type_key)
  ELSE primitive_marshal_to_ptr(g, value, h, offset)

\* What an operation returns to the host: Ok(out), or an error naming what was
\* expected and what was found (and, for an invocation, the argument index).
\* For an invocation the record also tells whether the compiled function was
\* called, under which name, what it was passed and what it returned.
Success(op, out) ==
  [op |-> op, ok |-> TRUE, kind |-> "", expected |-> "", found |-> "", idx |-> 0,
   out |-> out, called |-> FALSE, function_name |-> "", passed |-> <<>>, returned |-> 0]
Failure(op, kind, expected, found, idx) ==
  [op |-> op, ok |-> FALSE, kind |-> kind, expected |-> expected, found |-> found,
   idx |-> idx, out |-> Unit, called |-> FALSE, function_name |-> "", passed |-> <<>>,
   returned |-> 0]

\* StructRef::get::<T>(field_name) on a StructRef to h.
StructRef_get(w, h, field_name, T) ==
  LET type_info == ptr_type(w.gc, h)
      struct_info == as_struct(type_info)
      field_idx == find_field_index(struct_info, field_name)
  IN IF field_idx = 0
     THEN [w |-> w, res |-> Failure("get", "UnknownField", "", "", 0)]
     ELSE LET field_type == struct_info.field_types[field_idx]
              check == equals_return_type(T, TypeInfoOf(field_type))
          IN IF ~check.ok
             THEN [w |-> w,
                   res |-> Failure("get", "FieldType", check.expected, check.found, 0)]
             ELSE LET m == marshal_from_ptr(w, h, struct_info.field_offsets[field_idx],
                                            field_type, T)
                  IN [w |-> m.w, res |-> Success("get", m.value)]

\* A set that writes the value without checking its type against the field's.
StructRef_set_unchecked(w, h, field_name, value) ==
  LET struct_info == as_struct(ptr_type(w.gc, h))
      field_idx == find_field_index(struct_info, field_name)
  IN IF field_idx = 0
     THEN [w |-> drop_value(w, value), res |-> Failure("set", "UnknownField", "", "", 0)]
     ELSE LET w1 == marshal(w, value)
              g2 == marshal_to_ptr(w1.gc, value, h, struct_info.field_offsets[field_idx],
                                   struct_info.field_types[field_idx])
          IN [w |-> World(g2, w1.refs), res |-> Success("set", Unit)]

\* StructRef::set(field_name, value); the value is consumed on every path.
StructRef_set(w, h, field_name, value) ==
  LET type_info == ptr_type(w.gc, h)
      struct_info == as_struct(type_info)
      field_idx == find_field_index(struct_info, field_name)
  IN IF field_idx = 0
     THEN [w |-> drop_value(w, value), res |-> Failure("set", "UnknownField", "", "", 0)]
     ELSE LET field_type == struct_info.field_types[field_idx]
              check == equals_argument_type(w.gc, TypeInfoOf(field_type), value)
          IN IF ~check.ok
             THEN [w |-> drop_value(w, value),
                   res |-> Failure("set", "FieldType", check.expected, check.found, 0)]
             ELSE LET w1 == marshal(w, value)
                      g2 == marshal_to_ptr(w1.gc, value, h,
                                           struct_info.field_offsets[field_idx], field_type)
                  IN [w |-> World(g2, w1.refs), res |-> Success("set", Unit)]

\* A replace that writes the new value before it reads the old one.
StructRef_replace_written_first(w, h, field_name, value) ==
  LET struct_info == as_struct(ptr_type(w.gc, h))
      field_idx == find_field_index(struct_info, field_name)
  IN IF field_idx = 0
     THEN [w |-> drop_value(w, value),
           res |-> Failure("replace", "UnknownField", "", "", 0)]
     ELSE LET field_type == struct_info.field_types[field_idx]
              check == equals_argument_type(w.gc, TypeInfoOf(field_type), value)
          IN IF ~check.ok
             THEN [w |-> drop_value(w, value),
                   res |-> Failure("replace", "FieldType", check.expected, check.found, 0)]
             ELSE LET offset == struct_info.field_offsets[field_idx]
                      w1 == marshal(w, value)
                      g2 == marshal_to_ptr(w1.gc, value, h, offset, field_type)
                      old == marshal_from_ptr(World(g2, w1.refs), h, offset, field_type,
                                              value.ty)
                  IN [w |-> old.w, res |-> Success("replace", old.value)]

\* StructRef::replace(field_name, value): the old value is read, then the new
\* one is written.
StructRef_replace(w, h, field_name, value) ==
  LET type_info == ptr_type(w.gc, h)
      struct_info == as_struct(type_info)
      field_idx == find_field_index(struct_info, field_name)
  IN IF field_idx = 0
     THEN [w |-> drop_value(w, value),
           res |-> Failure("replace", "UnknownField", "", "", 0)]
     ELSE LET field_type == struct_info.field_types[field_idx]
              check == equals_argument_type(w.gc, TypeInfoOf(field_type), value)
          IN IF ~check.ok
             THEN [w |-> drop_value(w, value),
                   res |-> Failure("replace", "FieldType", check.expected, check.found, 0)]
             ELSE LET offset == struct_info.field_offsets[field_idx]
                      old == marshal_from_ptr(w, h, offset, field_type, value.ty)
                      w1 == marshal(old.w, value)
                      g2 == marshal_to_ptr(w1.gc, value, h, offset, field_type)
                  IN [w |-> World(g2, w1.refs), res |-> Success("replace", old.value)]

\* Whether a get::<T> that passes its checks finds what marshal_from_ptr requires.
get_defined(w, h, field_name, T) ==
  LET struct_info == as_struct(ptr_type(w.gc, h))
      field_idx == find_field_index(struct_info, field_name)
  IN (field_idx # 0 /\ equals_return_type(T, TypeInfoOf(struct_info.field_types[field_idx])).ok)
       => can_marshal_from_ptr(w, h, struct_info.field_offsets[field_idx],
                               struct_info.field_types[field_idx], T)

\* The same for a replace with value.
replace_defined(w, h, field_name, value) ==
  LET struct_info == as_struct(ptr_type(w.gc, h))
      field_idx == find_field_index(struct_info, field_name)
  IN (field_idx # 0
      /\ equals_argument_type(w.gc, TypeInfoOf(struct_info.field_types[field_idx]), value).ok)
       => can_marshal_from_ptr(w, h, struct_info.field_offsets[field_idx],
                               struct_info.field_types[field_idx], value.ty)

\* ------------------------------------------- the compiled module (external)

NoType == <<"", 0>>
FooTy(ver) == CASE ver = 1 -> FooTy1 [] ver = 2 -> FooTy2 [] OTHER -> FooTy3

\* The last version of the module the compiler produces.
LastVersion == 3

FunctionInfo(name, arg_types, return_type) ==
  [name |-> name, signature |-> [arg_types |-> arg_types, return_type |-> return_type]]

NoFunction == FunctionInfo("", <<>>, NoType)

FunctionNames == {"new_foo", "id_foo", "id_bar", "poke", "pick"}

\* Functions over the fundamental types of the language:
\*   fn twice(a: int) -> int      fn half(a: float) -> float
\*   fn negate(a: bool) -> bool   fn tick()
\*   fn less(a: int, b: float) -> bool
CompiledNames == {"twice", "half", "negate", "tick", "less"}

\* A function the module has from its second version on:
\*   fn late(a: Foo) -> Foo
AddedNames == {"late"}
AddedIn == 2

\* The function table of version ver of the module:
\*   fn new_foo() -> Foo          fn id_foo(a: Foo) -> Foo    fn id_bar(a: Bar) -> Bar
\*   fn poke(a: u8)               fn pick(a: u8, b: bool) -> u8
FunctionTable(ver, name) ==
  CASE name = "new_foo" -> FunctionInfo(name, <<>>, FooTy(ver))
    [] name = "id_foo"  -> FunctionInfo(name, <<FooTy(ver)>>, FooTy(ver))
    [] name = "id_bar"  -> FunctionInfo(name, <<BarTy>>, BarTy)
    [] name = "poke"    -> FunctionInfo(name, <<u8Ty>>, NoType)
    [] name = "pick"    -> FunctionInfo(name, <<u8Ty, boolTy>>, u8Ty)
    [] name = "twice"   -> FunctionInfo(name, <<IntTy>>, IntTy)
    [] name = "half"    -> FunctionInfo(name, <<FloatTy>>, FloatTy)
    [] name = "negate"  -> FunctionInfo(name, <<BoolTy>>, BoolTy)
    [] name = "tick"    -> FunctionInfo(name, <<>>, NoType)
    [] name = "less"    -> FunctionInfo(name, <<IntTy, FloatTy>>, BoolTy)
    [] name = "late"    -> FunctionInfo(name, <<FooTy(ver)>>, FooTy(ver))

\* Runtime::get_function_info
get_function_info(ver, function_name) ==
  IF \/ function_name \in FunctionNames \cup CompiledNames
     \/ function_name \in AddedNames /\ ver >= AddedIn
  THEN FunctionTable(ver, function_name)
  ELSE NoFunction

\* The compiled function behind fn_ptr, called with the marshalled arguments:
\* the heap it leaves and the raw value it returns.
call_fn(g, ver, function_name, raw_args) ==
  CASE function_name = "new_foo" ->
         LET a == gc_alloc(g, FooTy(ver)) IN [gc |-> a.gc, result |-> a.handle]
    [] function_name \in {"id_foo", "id_bar", "pick", "twice", "half", "negate", "late"} ->
         [gc |-> g, result |-> raw_args[1]]
    [] OTHER -> [gc |-> g, result |-> 0]

\* ------------------------------------------------ invocation (macros.rs)

NoErr == [function_name |-> "", args |-> <<>>, output |-> "unit"]

\* $ErrName::new: the error keeps the function name, the arguments and the
\* output type.
InvokeErr(function_name, args, Output) ==
  [function_name |-> function_name, args |-> args, output |-> Output]

\* function($($Arg.marshal()),*): the arguments are marshalled left to right.
RECURSIVE marshal_args(_, _)
marshal_args(w, args) ==
  IF args = <<>> THEN w ELSE marshal_args(marshal(w, Head(args)), Tail(args))

\* A marshal_value that hands the returned struct to the host unrooted.
marshal_value_unrooted(w, raw, Output) ==
  IF Output = "StructRef"
  THEN [w |-> World(w.gc, [w.refs EXCEPT ![raw] = @ + 1]),
        value |-> Value("StructRef", raw)]
  ELSE [w |-> w, value |-> Value(Output, raw)]

\* <RawStruct as Marshal<StructRef>>::marshal_value is StructRef::new;
\* <T as Marshal<T>>::marshal_value is the identity.
marshal_value(w, raw, Output) ==
  IF Output = "StructRef"
  THEN [w |-> StructRef_new(w, raw), value |-> Value("StructRef", raw)]
  ELSE [w |-> w, value |-> Value(Output, raw)]

\* An invocation that does not check the return type.
check_output_skipped(function_info, Output) == Ok

\* The return type check of an invocation.
check_output(function_info, Output) ==
  IF function_info.signature.return_type # NoType
  THEN equals_return_type(Output, TypeInfoOf(function_info.signature.return_type))
  ELSE IF return_type_guid("unit") # return_type_guid(Output)
       THEN Mismatch(return_type_name("unit"), return_type_name(Output))
       ELSE Ok

\* Runtime::invoke_fnN(runtime, function_name, args...) with Output.
invoke_fn(w, ver, function_name, args, Output) ==
  LET function_info == get_function_info(ver, function_name)
      arg_types == function_info.signature.arg_types
      bad == {i \in 1..Len(args) :
                ~equals_argument_type(w.gc, TypeInfoOf(arg_types[i]), args[i]).ok}
      failed(kind, expected, found, idx) ==
        [w |-> w, err |-> InvokeErr(function_name, args, Output), called |-> FALSE,
         res |-> Failure("invoke", kind, expected, found, idx)]
  IN IF function_info = NoFunction
     THEN failed("NoFunction", "", "", 0)
     ELSE IF Len(arg_types) # Len(args)
     THEN failed("ArgCount", "", "", 0)
     ELSE IF bad # {}
     THEN LET i == Least(bad)
              check == equals_argument_type(w.gc, TypeInfoOf(arg_types[i]), args[i])
          IN failed("ArgType", check.expected, check.found, i - 1)
     ELSE LET check == check_output(function_info, Output)
          IN IF ~check.ok
             THEN failed("ReturnType", check.expected, check.found, 0)
             ELSE LET w1 == marshal_args(w, args)
                      raw_args == [i \in 1..Len(args) |-> args[i].val]
                      c == call_fn(w1.gc, ver, function_name, raw_args)
                      m == marshal_value(World(c.gc, w1.refs), c.result, Output)
                  IN [w |-> m.w, err |-> NoErr, called |-> TRUE,
                      res |-> [Success("invoke", m.value) EXCEPT
                                 !.called = TRUE, !.function_name = function_name,
                                 !.passed = raw_args,
                                 !.returned = c.result]]

\* What a call that passes its checks requires: new_foo needs a free handle.
invoke_defined(w, ver, function_name, args, Output) ==
  LET function_info == get_function_info(ver, function_name)
      arg_types == function_info.signature.arg_types
  IN (/\ function_info # NoFunction
      /\ Len(arg_types) = Len(args)
      /\ \A i \in 1..Len(args) :
           equals_argument_type(w.gc, TypeInfoOf(arg_types[i]), args[i]).ok
      /\ check_output(function_info, Output).ok)
     => (function_name = "new_foo" => FreeHandles(w.gc) # {})

\* ------------------------------------------- diff and mapping (mun_memory)

FieldDiff(kind, name, old_index, new_index) ==
  [kind |-> kind, name |-> name, old_index |-> old_index, new_index |-> new_index]

same_type(a, b) == TypeInfoOf(a).guid = TypeInfoOf(b).guid

\* A diff that matches the fields by their position in the two layouts.
diff_positional(old, new) ==
  LET of_new(i) ==
        IF i > Len(old.field_names) THEN FieldDiff("Added", new.field_names[i], 0, i)
        ELSE IF ~same_type(old.field_types[i], new.field_types[i])
        THEN FieldDiff("TypeChanged", new.field_names[i], i, i)
        ELSE IF old.field_offsets[i] = new.field_offsets[i]
        THEN FieldDiff("Unchanged", new.field_names[i], i, i)
        ELSE FieldDiff("Moved", new.field_names[i], i, i)
      removed == [k \in 1..(Len(old.field_names) - Len(new.field_names)) |->
                    FieldDiff("Removed", old.field_names[Len(new.field_names) + k],
                              Len(new.field_names) + k, 0)]
  IN [i \in 1..Len(new.field_names) |-> of_new(i)] \o removed

\* diff(old, new): the fields of new in their order, matched by name against
\* old, then the fields only old has.
diff(old, new) ==
  LET of_new(i) ==
        LET j == find_field_index(old, new.field_names[i])
        IN IF j = 0 THEN FieldDiff("Added", new.field_names[i], 0, i)
           ELSE IF ~same_type(old.field_types[j], new.field_types[i])
           THEN FieldDiff("TypeChanged", new.field_names[i], j, i)
           ELSE IF old.field_offsets[j] = new.field_offsets[i]
           THEN FieldDiff("Unchanged", new.field_names[i], j, i)
           ELSE FieldDiff("Moved", new.field_names[i], j, i)
      removed == SelectSeq([j \in 1..Len(old.field_names) |->
                              FieldDiff("Removed", old.field_names[j], j, 0)],
                           LAMBDA d : find_field_index(new, d.name) = 0)
  IN [i \in 1..Len(new.field_names) |-> of_new(i)] \o removed

\* The conversion of a field whose type changed: a numeric cast between two
\* fundamental types, zero otherwise.
cast_or_zero(old_ty, new_ty, bytes) ==
  IF TypeInfoOf(old_ty).group = "FundamentalTypes"
     /\ TypeInfoOf(new_ty).group = "FundamentalTypes"
  THEN le_bytes(le_value(bytes), field_size(new_ty))
  ELSE Zeroes(field_size(new_ty))

\* An apply that copies a field to the offset it had in the old layout.
RECURSIVE apply_in_place(_, _, _, _, _)
apply_in_place(d, old, new, old_bytes, new_buffer) ==
  IF d = <<>> THEN new_buffer
  ELSE LET f == Head(d)
           old_field == ReadBytes(old_bytes, old.field_offsets[f.old_index],
                                  field_size(old.field_types[f.old_index]))
           written ==
             CASE f.kind \in {"Unchanged", "Moved"} ->
                    WriteBytes(new_buffer, old.field_offsets[f.old_index], old_field)
               [] f.kind = "TypeChanged" ->
                    WriteBytes(new_buffer, new.field_offsets[f.new_index],
                               cast_or_zero(old.field_types[f.old_index],
                                            new.field_types[f.new_index], old_field))
               [] f.kind = "Added" ->
                    WriteBytes(new_buffer, new.field_offsets[f.new_index],
                               Zeroes(field_size(new.field_types[f.new_index])))
               [] OTHER -> new_buffer
       IN apply_in_place(Tail(d), old, new, old_bytes, written)

\* apply(diff, old_bytes, new_buffer)
RECURSIVE apply(_, _, _, _, _)
apply(d, old, new, old_bytes, new_buffer) ==
  IF d = <<>> THEN new_buffer
  ELSE LET f == Head(d)
           old_field == ReadBytes(old_bytes, old.field_offsets[f.old_index],
                                  field_size(old.field_types[f.old_index]))
           written ==
             CASE f.kind \in {"Unchanged", "Moved"} ->
                    WriteBytes(new_buffer, new.field_offsets[f.new_index], old_field)
               [] f.kind = "TypeChanged" ->
                    WriteBytes(new_buffer, new.field_offsets[f.new_index],
                               cast_or_zero(old.field_types[f.old_index],
                                            new.field_types[f.new_index], old_field))
               [] f.kind = "Added" ->
                    WriteBytes(new_buffer, new.field_offsets[f.new_index],
                               Zeroes(field_size(new.field_types[f.new_index])))
               [] OTHER -> new_buffer
       IN apply(Tail(d), old, new, old_bytes, written)

\* A migration that registers the migrated object under a new handle (the least
\* free one) and invalidates the old one.
migrate_rehandled(g, h, new_ty) ==
  LET old == as_struct(ptr_type(g, h))
      new == as_struct(TypeInfoOf(new_ty))
      a == Least(FreeAddrs(g))
      n == IF FreeHandles(g) = {} THEN h ELSE Least(FreeHandles(g))
      filled == apply(diff(old, new), old, new, deref(g, h),
                      Zeroes(size_in_bytes(TypeInfoOf(new_ty))))
      moved == [ty |-> new_ty, ptr |-> a, roots |-> g.objects[h].roots]
  IN [objects |-> [p \in Handles |->
                     IF p = n THEN moved ELSE IF p = h THEN NoObj ELSE g.objects[p]],
      memory  |-> [g.memory EXCEPT ![a] = filled, ![g.objects[h].ptr] = <<>>]]

\* A migration that retags the object and leaves its bytes where and as they are.
migrate_retagged(g, h, new_ty) ==
  [g EXCEPT !.objects[h].ty = new_ty]

\* The migration of object h to the descriptor new_ty: new backing storage is
\* allocated, apply fills it from the old bytes, the indirection table entry is
\* redirected to it and retagged, and the old storage is returned.
migrate(g, h, new_ty) ==
  LET old == as_struct(ptr_type(g, h))
      new == as_struct(TypeInfoOf(new_ty))
      a == Least(FreeAddrs(g))
      new_buffer == Zeroes(size_in_bytes(TypeInfoOf(new_ty)))
      filled == apply(diff(old, new), old, new, deref(g, h), new_buffer)
  IN [objects |-> [g.objects EXCEPT ![h] = [ty |-> new_ty, ptr |-> a, roots |-> @.roots]],
      memory  |-> [g.memory EXCEPT ![a] = filled, ![g.objects[h].ptr] = <<>>]]

\* ----------------------------------------------------------------- actions

RECURSIVE SumOver(_, _)
SumOver(f, S) ==
  IF S = {} THEN 0 ELSE LET x == Least(S) IN f[x] + SumOver(f, S \ {x})

\* The StructRefs alive, wherever they are held.
RefTotal(r) == SumOver(r, Handles)

\* The StructRefs to h among args.
RefsIn(args, h) ==
  Cardinality({i \in 1..Len(args) : args[i] = Value("StructRef", h)})

\* The StructRefs to h the host can use: those not kept inside the error.
Available(h) == refs[h] - RefsIn(err.args, h)

\* The host holds, besides those in held, every StructRef among args.
Holds(held, args) ==
  \A h \in Handles : RefsIn(held, h) + RefsIn(args, h) <= Available(h)

Init ==
  /\ gc = [objects |-> [h \in Handles |-> NoObj], memory |-> [a \in Addrs |-> <<>>]]
  /\ refs = [h \in Handles |-> 0]
  /\ err = NoErr
  /\ version = 1
  /\ reload = "idle"
  /\ last = Success("init", Unit)
  /\ retry = NoRetry

\* self.get::<T>(field_name) on a StructRef to h.
Get(h, field_name, T) ==
  /\ reload = "idle"
  /\ Available(h) > 0
  /\ get_defined(World(gc, refs), h, field_name, T)
  /\ LET r == StructRef_get(World(gc, refs), h, field_name, T)
     IN /\ gc' = r.w.gc
        /\ refs' = r.w.refs
        /\ last' = r.res
  /\ RefTotal(refs') <= MaxRefs
  /\ UNCHANGED <<err, version, reload, retry>>

\* self.set(field_name, value) on a StructRef to h.
Set(h, field_name, value) ==
  /\ reload = "idle"
  /\ Holds(<<Value("StructRef", h)>>, <<value>>)
  /\ LET r == StructRef_set(World(gc, refs), h, field_name, value)
     IN /\ gc' = r.w.gc
        /\ refs' = r.w.refs
        /\ last' = r.res
  /\ UNCHANGED <<err, version, reload, retry>>

\* self.replace(field_name, value) on a StructRef to h.
Replace(h, field_name, value) ==
  /\ reload = "idle"
  /\ Holds(<<Value("StructRef", h)>>, <<value>>)
  /\ replace_defined(World(gc, refs), h, field_name, value)
  /\ LET r == StructRef_replace(World(gc, refs), h, field_name, value)
     IN /\ gc' = r.w.gc
        /\ refs' = r.w.refs
        /\ last' = r.res
  /\ RefTotal(refs') <= MaxRefs
  /\ UNCHANGED <<err, version, reload, retry>>

\* invoke_fn!(runtime, function_name, args...) with the output type Output; the
\* host deals with an error it holds before it invokes again.
InvokeFn(function_name, args, Output) ==
  /\ reload = "idle"
  /\ err = NoErr
  /\ Holds(<<>>, args)
  /\ invoke_defined(World(gc, refs), version, function_name, args, Output)
  /\ LET r == invoke_fn(World(gc, refs), version, function_name, args, Output)
     IN /\ gc' = r.w.gc
        /\ refs' = r.w.refs
        /\ err' = r.err
        /\ last' = r.res
  /\ RefTotal(refs') <= MaxRefs
  /\ UNCHANGED <<version, reload, retry>>

\* The host drops a StructRef to h.
DropRef(h) ==
  /\ reload = "idle"
  /\ Available(h) > 0
  /\ LET w == StructRef_drop(World(gc, refs), h)
     IN gc' = w.gc /\ refs' = w.refs
  /\ last' = Success("drop", Unit)
  /\ UNCHANGED <<err, version, reload, retry>>

RECURSIVE drop_values(_, _)
drop_values(w, values) ==
  IF values = <<>> THEN w ELSE drop_values(drop_value(w, Head(values)), Tail(values))

\* The host drops the invocation error, and with it the arguments it keeps.
DropErr ==
  /\ reload = "idle"
  /\ err # NoErr
  /\ LET w == drop_values(World(gc, refs), err.args)
     IN gc' = w.gc /\ refs' = w.refs
  /\ err' = NoErr
  /\ last' = Success("drop_err", Unit)
  /\ UNCHANGED <<version, reload, retry>>

\* Runtime::gc_collect
Collect ==
  /\ reload = "idle"
  /\ gc' = collect(gc)
  /\ last' = Success("collect", Unit)
  /\ UNCHANGED <<refs, err, version, reload, retry>>

\* --- the reload protocol

\* The objects whose descriptor the new module replaces.
Outdated(g) == {h \in Handles : Live(g, h) /\ g.objects[h].ty = FooTy(version)}

BeginReload ==
  /\ reload = "idle"
  /\ version < LastVersion
  /\ reload' = "begun"
  /\ last' = Success("begin_reload", Unit)
  /\ UNCHANGED <<gc, refs, err, version, retry>>

\* The diff of every type name that both descriptor sets hold.
DiffTypes ==
  /\ reload = "begun"
  /\ reload' = "diffed"
  /\ last' = Success("diff", Unit)
  /\ UNCHANGED <<gc, refs, err, version, retry>>

\* The migration of one live instance.
Migrate(h) ==
  /\ reload = "diffed"
  /\ h \in Outdated(gc)
  /\ gc' = migrate(gc, h, FooTy(version + 1))
  /\ last' = Success("migrate", Value("StructRef", h))
  /\ UNCHANGED <<refs, err, version, reload, retry>>

\* A swap of the tables that does not wait for the migrations.
SwapTables_early ==
  /\ reload = "diffed"
  /\ version' = version + 1
  /\ reload' = "swapped"
  /\ last' = Success("swap", Unit)
  /\ UNCHANGED <<gc, refs, err, retry>>

\* The swap of the active descriptor and function tables.
SwapTables ==
  /\ reload = "diffed"
  /\ Outdated(gc) = {}
  /\ version' = version + 1
  /\ reload' = "swapped"
  /\ last' = Success("swap", Unit)
  /\ UNCHANGED <<gc, refs, err, retry>>

EndReload ==
  /\ reload = "swapped"
  /\ reload' = "idle"
  /\ last' = Success("end_reload", Unit)
  /\ UNCHANGED <<gc, refs, err, version, retry>>

\* --- retry and wait

\* The objects of g tagged with the Foo of version ver, migrated one after the
\* other to new_ty.
RECURSIVE migrate_all(_, _, _)
migrate_all(g, hs, new_ty) ==
  IF hs = {} THEN g
  ELSE LET h == Least(hs) IN migrate_all(migrate(g, h, new_ty), hs \ {h}, new_ty)

\* Runtime::update: when the compiled module has changed it is reloaded, the
\* live objects of the replaced descriptor migrated and the tables swapped, and
\* true is returned; false is returned when there is nothing to reload.
update(g, ver, changed) ==
  IF changed /\ ver < LastVersion
  THEN [gc |-> migrate_all(g, {h \in Handles : Live(g, h) /\ g.objects[h].ty = FooTy(ver)},
                           FooTy(ver + 1)),
        version |-> ver + 1, result |-> TRUE]
  ELSE [gc |-> g, version |-> ver, result |-> FALSE]

\* The host is outside retry() and wait(): what it does with the runtime
\* between two of them.
HostInvoke(function_name, args, Output) ==
  retry.mode = "none" /\ InvokeFn(function_name, args, Output)
HostDropRef(h) == retry.mode = "none" /\ DropRef(h)
HostDropErr == retry.mode = "none" /\ DropErr

\* result.retry() or result.wait() (mode) on Ok(output): the output is given
\* back.
RetryOk(mode) ==
  /\ retry.mode = "none"
  /\ last.op \in {"invoke", "retry"} /\ last.ok
  /\ last' = [last EXCEPT !.op = mode]
  /\ UNCHANGED <<gc, refs, err, version, reload, retry>>

\* result.retry() or result.wait() (mode) on Err(err): the message is printed
\* and the polling begins, the error and the arguments in it kept.
RetryErr(mode) ==
  /\ retry.mode = "none"
  /\ last.op \in {"invoke", "retry"} /\ ~last.ok /\ err # NoErr
  /\ retry' = [mode |-> mode, updated |-> FALSE]
  /\ UNCHANGED <<gc, refs, err, version, reload, last>>

\* while !err.runtime.borrow_mut().update() {}: one call of update.
Poll(changed) ==
  /\ retry.mode # "none" /\ ~retry.updated
  /\ LET u == update(gc, version, changed)
     IN /\ gc' = u.gc
        /\ version' = u.version
        /\ retry' = [retry EXCEPT !.updated = u.result]
  /\ UNCHANGED <<refs, err, reload, last>>

\* Runtime::$FnName(&err.runtime, err.function_name, err.$Arg...): the function
\* is invoked again with the arguments the error kept.  retry() returns what
\* the invocation returns; wait() returns its output, or goes on with the new
\* error.
Reinvoke ==
  /\ retry.mode # "none" /\ retry.updated
  /\ invoke_defined(World(gc, refs), version, err.function_name, err.args, err.output)
  /\ LET r == invoke_fn(World(gc, refs), version, err.function_name, err.args, err.output)
     IN /\ gc' = r.w.gc
        /\ refs' = r.w.refs
        /\ err' = r.err
        /\ last' = [r.res EXCEPT !.op = retry.mode]
        /\ retry' = IF retry.mode = "wait" /\ ~r.res.ok
                    THEN [mode |-> "wait", updated |-> FALSE]
                    ELSE NoRetry
  /\ RefTotal(refs') <= MaxRefs
  /\ UNCHANGED <<version, reload>>

\* ------------------------------------------------------------ specifications

PrimitiveValues == {Value("u8", 7), Value("bool", 1)}
RefValues == {Value("StructRef", h) : h \in Handles}
Values == PrimitiveValues \cup RefValues

\* The collector under the host's allocations, field writes and reads of
\* struct(gc) fields, drops and collections.
NextGc ==
  \/ InvokeFn("new_foo", <<>>, "StructRef")
  \/ \E h \in Handles, v \in RefValues : Set(h, "next", v)
  \/ \E h \in Handles : Get(h, "next", "StructRef")
  \/ \E h \in Handles : DropRef(h)
  \/ Collect

SpecGc == Init /\ [][NextGc]_vars

\* What the host invokes: every function of the module and one it does not have,
\* with no, one or two arguments, for a struct, a primitive or no result.
InvokeNames == FunctionNames \cup {"nope"}
InvokeArgs ==
  {<<>>} \cup {<<v>> : v \in Values} \cup {<<v, u>> : v \in Values, u \in PrimitiveValues}
InvokeOutputs == {"StructRef", "u8", "unit"}

\* Invocations, with the field read that gives the host structs of both memory
\* kinds to pass.
NextInvoke ==
  \/ \E fn \in InvokeNames, args \in InvokeArgs, Output \in InvokeOutputs :
       InvokeFn(fn, args, Output)
  \/ \E h \in Handles : Get(h, "v", "StructRef")
  \/ \E h \in Handles : DropRef(h)
  \/ DropErr

SpecInvoke == Init /\ [][NextInvoke]_vars

\* The crossings of a struct between the host and the compiled module: as an
\* argument, as a return value and through the fields of both memory kinds.
CrossingNames == {"next", "v"}

NextCrossing ==
  \/ InvokeFn("new_foo", <<>>, "StructRef")
  \/ \E fn \in {"id_foo", "id_bar"}, v \in RefValues : InvokeFn(fn, <<v>>, "StructRef")
  \/ \E h \in Handles, f \in CrossingNames : Get(h, f, "StructRef")
  \/ \E h \in Handles : Set(h, "x", Value("u8", 7))
  \/ \E h \in Handles, f \in CrossingNames, v \in RefValues : Set(h, f, v)
  \/ \E h \in Handles, f \in CrossingNames, v \in RefValues : Replace(h, f, v)
  \/ \E h \in Handles : DropRef(h)
  \/ DropErr

SpecCrossing == Init /\ [][NextCrossing]_vars

\* What the host reads and writes through a StructRef: fields of both memory
\* kinds, a primitive field and a field no struct has.
AccessNames == {"next", "v", "x", "zz"}
AccessTypes == {"StructRef", "u8"}
AccessValues == RefValues \cup {Value("u8", 7)}

NextField ==
  \/ InvokeFn("new_foo", <<>>, "StructRef")
  \/ \E h \in Handles, f \in AccessNames, T \in AccessTypes : Get(h, f, T)
  \/ \E h \in Handles, f \in AccessNames, v \in AccessValues : Set(h, f, v)
  \/ \E h \in Handles, f \in AccessNames, v \in AccessValues : Replace(h, f, v)
  \/ \E h \in Handles : DropRef(h)

SpecField == Init /\ [][NextField]_vars

\* The values of a primitive type the host writes and reads back: the least and
\* the greatest, and those around zero, the sign bit and the byte boundary.
ValuesOf(T) ==
  CASE T = "u8"   -> {0, 1, 127, 128, 255}
    [] T = "i8"   -> {-128, -127, -1, 0, 1, 127}
    [] T = "bool" -> {0, 1}
    [] T = "u16"  -> {0, 1, 255, 256, 257, 32768, 65535}

RoundTripTypes == {"u8", "i8", "bool", "u16"}
RoundTripNames == {"x", "y"}
RoundTripValues ==
  {Value("u8", 0), Value("u8", 7), Value("u8", 255), Value("bool", 0), Value("bool", 1),
   Value("i8", -1)}

\* Writes of primitive values to the fields of a struct and reads of them.
NextRoundTrip ==
  \/ InvokeFn("new_foo", <<>>, "StructRef")
  \/ \E h \in Handles : Get(h, "v", "StructRef")
  \/ \E h \in Handles, f \in RoundTripNames, v \in RoundTripValues : Set(h, f, v)
  \/ \E h \in Handles, f \in RoundTripNames, T \in {"u8", "bool"} : Get(h, f, T)
  \/ \E h \in Handles : DropRef(h)

SpecRoundTrip == Init /\ [][NextRoundTrip]_vars

\* --- struct layouts, as the compiler backend lays them out

LayoutNames == {"a", "b", "c"}
LayoutTypes == {u8Ty, u16Ty, BarTy, FooTy1}

\* The alignment of a field: that of a GcPtr for a struct(gc), the type's otherwise.
field_align(ty) ==
  IF as_struct(TypeInfoOf(ty)).memory_kind = "GC" THEN PtrSize
  ELSE TypeInfoOf(ty).alignment

\* The offsets of fields of the given types, each at the next multiple of its
\* alignment past the end of the one before.
RECURSIVE field_offsets(_, _)
field_offsets(types, end) ==
  IF types = <<>> THEN <<>>
  ELSE LET a == field_align(Head(types))
           offset == ((end + a - 1) \div a) * a
       IN <<offset>> \o field_offsets(Tail(types), offset + field_size(Head(types)))

StructLayout(names, types) ==
  [field_names |-> names, field_types |-> types,
   field_offsets |-> field_offsets(types, 0), memory_kind |-> "GC"]

\* The size of a struct of this layout: the end of its last field.
layout_size(layout) ==
  IF layout.field_names = <<>> THEN 0
  ELSE layout.field_offsets[Len(layout.field_offsets)]
         + field_size(layout.field_types[Len(layout.field_types)])

\* Every layout of up to MaxFields fields of distinct names.
Layouts ==
  {StructLayout(names, types) :
     <<names, types>> \in
       UNION {{nt \in [1..n -> LayoutNames] \X [1..n -> LayoutTypes] :
                 \A i, j \in 1..n : nt[1][i] = nt[1][j] => i = j} : n \in 0..MaxFields}}

\* The bytes of an object of this layout: byte i holds i, so that no two are
\* alike and none is zero.
ObjectBytes(layout) == [i \in 1..layout_size(layout) |-> i]

\* The engine is handed an old and a new layout and the bytes of an old object.
InitDiff ==
  /\ gc = [objects |-> [h \in Handles |-> NoObj], memory |-> [a \in Addrs |-> <<>>]]
  /\ refs = [h \in Handles |-> 0]
  /\ err = NoErr
  /\ version = 1
  /\ reload = "diffed"
  /\ retry = NoRetry
  /\ \E old \in Layouts, new \in Layouts :
       last = Success("layouts", [old |-> old, new |-> new, old_bytes |-> ObjectBytes(old),
                                  diff |-> <<>>, new_buffer |-> <<>>])

\* The engine diffs the two layouts and applies the diff to a buffer of the new
\* size that alloc has zero-initialized.
MapFields ==
  /\ last.op = "layouts"
  /\ LET old == last.out.old
         new == last.out.new
         d == diff(old, new)
     IN last' = Success("apply",
                  [last.out EXCEPT
                     !.diff = d,
                     !.new_buffer = apply(d, old, new, last.out.old_bytes,
                                          Zeroes(layout_size(new)))])
  /\ UNCHANGED <<gc, refs, err, version, reload, retry>>

NextDiff == MapFields

SpecDiff == InitDiff /\ [][NextDiff]_vars

\* Reloads of the module: the host allocates, links and drops objects of the old
\* and of the new versions around the protocol's steps.
NextReload ==
  \/ InvokeFn("new_foo", <<>>, "StructRef")
  \/ \E h \in Handles, v \in RefValues : Set(h, "next", v)
  \/ \E h \in Handles : Get(h, "next", "StructRef")
  \/ \E h \in Handles : DropRef(h)
  \/ BeginReload
  \/ DiffTypes
  \/ \E h \in Handles : Migrate(h)
  \/ SwapTables
  \/ EndReload

SpecReload == Init /\ [][NextReload]_vars

\* --- descriptors, compared and hashed

\* Descriptors of the runtime: those of the module, of every version, and others
\* of the same and of another name that differ in group, size and alignment.
Descriptors ==
  {TypeInfoOf(key) : key \in TypeKeys}
    \cup {[guid |-> md5(name), name |-> name, size_in_bits |-> bits, alignment |-> align,
           group |-> group, struct_info |-> NoStruct] :
            name \in {"Foo", "core::u8"}, bits \in {8, 24}, align \in {1, 8},
            group \in {"FundamentalTypes", "StructTypes"}}

\* Two descriptors are picked.
InitTypeInfo ==
  /\ gc = [objects |-> [h \in Handles |-> NoObj], memory |-> [a \in Addrs |-> <<>>]]
  /\ refs = [h \in Handles |-> 0]
  /\ err = NoErr
  /\ version = 1
  /\ reload = "idle"
  /\ retry = NoRetry
  /\ \E a \in Descriptors, b \in Descriptors :
       last = Success("type_infos", [a |-> a, b |-> b, eq |-> FALSE,
                                     hash_a |-> <<>>, hash_b |-> <<>>])

\* They are compared and hashed.
CompareTypeInfo ==
  /\ last.op = "type_infos"
  /\ last' = Success("eq", [last.out EXCEPT
                              !.eq = TypeInfo_eq(last.out.a, last.out.b),
                              !.hash_a = TypeInfo_hash(last.out.a),
                              !.hash_b = TypeInfo_hash(last.out.b)])
  /\ UNCHANGED <<gc, refs, err, version, reload, retry>>

NextTypeInfo == CompareTypeInfo

SpecTypeInfo == InitTypeInfo /\ [][NextTypeInfo]_vars

\* --- the sizes of a descriptor

\* The size_in_bits a descriptor is given: the least values and the greatest.
SizesInBits ==
  {to_u32(n) : n \in 0..40} \cup {[hi |-> 65535, lo |-> lo] : lo \in 65520..65535}

\* The alignments (u8) it is given.
Alignments == {1, 2, 4, 8, 255}

\* A descriptor is given its size and alignment (test_utils::fake_type_info).
InitSize ==
  /\ gc = [objects |-> [h \in Handles |-> NoObj], memory |-> [a \in Addrs |-> <<>>]]
  /\ refs = [h \in Handles |-> 0]
  /\ err = NoErr
  /\ version = 1
  /\ reload = "idle"
  /\ retry = NoRetry
  /\ \E bits \in SizesInBits, align \in Alignments :
       last = Success("type_info", [size_in_bits |-> bits, alignment |-> align])

\* size_in_bits(), size_in_bytes() and alignment() of the descriptor, in a build
\* with or without overflow checks.
SizeOf(overflow_checks) ==
  /\ last.op = "type_info"
  /\ LET bytes == size_in_bytes_u32(last.out.size_in_bits, overflow_checks)
     IN last' = Success("sizes",
                  [type_info |-> last.out,
                   size_in_bits |-> last.out.size_in_bits,
                   size_in_bytes |-> bytes.value,
                   panicked |-> bytes.panicked,
                   alignment |-> last.out.alignment])
  /\ UNCHANGED <<gc, refs, err, version, reload, retry>>

NextSize == \E overflow_checks \in BOOLEAN : SizeOf(overflow_checks)

SpecSize == InitSize /\ [][NextSize]_vars

\* --- invocations of functions over the fundamental types of the language

\* The parameter types and the return type of a compiled function, as the
\* types of the language ("Empty" for an absent return type).
MunSignature(function_name) ==
  CASE function_name = "twice"  -> [params |-> <<"Int">>, ret |-> "Int"]
    [] function_name = "half"   -> [params |-> <<"Float">>, ret |-> "Float"]
    [] function_name = "negate" -> [params |-> <<"Bool">>, ret |-> "Bool"]
    [] function_name = "tick"   -> [params |-> <<>>, ret |-> "Empty"]
    [] function_name = "less"   -> [params |-> <<"Int", "Float">>, ret |-> "Bool"]

\* The native values and output types the host invokes them with.
BackendValues ==
  {Value("i64", 0), Value("i64", 5), Value("f64", 0), Value("f64", 1),
   Value("bool", 0), Value("bool", 1)}
BackendArgs == {<<>>} \cup {<<v>> : v \in BackendValues}
BackendOutputs == {"i64", "f64", "bool", "unit"}

\* The native types of a call correspond to the signature of the function:
\* each argument is of the native type its parameter is compiled to, and so
\* is the output, () standing for an absent return type.
Corresponds(function_name, args, Output) ==
  LET sig == MunSignature(function_name)
  IN /\ Len(args) = Len(sig.params)
     /\ \A i \in 1..Len(args) : args[i].ty = ir_query(sig.params[i])
     /\ Output = (IF sig.ret = "Empty" THEN "unit" ELSE ir_query(sig.ret))

NextBackend ==
  \/ \E function_name \in CompiledNames, args \in BackendArgs,
        Output \in BackendOutputs : InvokeFn(function_name, args, Output)
  \/ DropErr

SpecBackend == Init /\ [][NextBackend]_vars

\* --- invocations that fail one check or several

\* What the host invokes: functions of two parameters and of none, and one the
\* module does not have, with no, one or two native arguments, so that the
\* lookup, the count, either argument and the return type can each be the
\* first check to fail.
OrderNames == {"less", "pick", "tick", "nope"}
OrderValues == {Value("i64", 5), Value("f64", 1), Value("u8", 7), Value("bool", 1)}
OrderArgs ==
  {<<>>} \cup {<<v>> : v \in OrderValues}
    \cup {<<v, u>> : v \in OrderValues, u \in OrderValues}
OrderOutputs == {"bool", "u8", "unit"}

NextOrder ==
  \/ \E function_name \in OrderNames, args \in OrderArgs, Output \in OrderOutputs :
       InvokeFn(function_name, args, Output)
  \/ DropErr

SpecOrder == Init /\ [][NextOrder]_vars

\* --- retries of failed invocations

\* Invocations that fail for good (an argument of the wrong struct type, a
\* function no version has) and one that a reload mends (a function the next
\* version adds), retried and waited for.
RetryNames == {"late", "id_bar", "nope"}
RetryModes == {"retry", "wait"}

NextRetry ==
  \/ HostInvoke("new_foo", <<>>, "StructRef")
  \/ \E function_name \in RetryNames, v \in RefValues :
       HostInvoke(function_name, <<v>>, "StructRef")
  \/ \E h \in Handles : HostDropRef(h)
  \/ HostDropErr
  \/ \E mode \in RetryModes : RetryOk(mode)
  \/ \E mode \in RetryModes : RetryErr(mode)
  \/ \E changed \in BOOLEAN : Poll(changed)
  \/ Reinvoke

SpecRetry == Init /\ [][NextRetry]_vars

\* --- the life of the root registrations

\* The ways a StructRef comes to be and goes: returned by an invocation or by
\* a field read, passed as an argument or written to a field, kept in an
\* invocation error, dropped; with accesses to a field no struct has,
\* invocations with an argument or for an output of the wrong type, and
\* collections in between.
RootNames == {"next", "zz"}
RootFunctions == {"id_foo", "id_bar"}
RootOutputs == {"StructRef", "u8"}

NextRoots ==
  \/ InvokeFn("new_foo", <<>>, "StructRef")
  \/ \E fn \in RootFunctions, v \in RefValues, Output \in RootOutputs :
       InvokeFn(fn, <<v>>, Output)
  \/ \E h \in Handles, f \in RootNames : Get(h, f, "StructRef")
  \/ \E h \in Handles, f \in RootNames, v \in RefValues : Set(h, f, v)
  \/ \E h \in Handles : DropRef(h)
  \/ DropErr
  \/ Collect

SpecRoots == Init /\ [][NextRoots]_vars

\* The protocol of a reload among everything else the host does: allocations,
\* invocations, field accesses, drops and collections.
NextProtocol ==
  \/ InvokeFn("new_foo", <<>>, "StructRef")
  \/ \E h \in Handles : Get(h, "flag", "u8")
  \/ \E h \in Handles : Set(h, "flag", Value("u8", 7))
  \/ \E h \in Handles : DropRef(h)
  \/ Collect
  \/ BeginReload
  \/ DiffTypes
  \/ \E h \in Handles : Migrate(h)
  \/ SwapTables
  \/ EndReload

SpecProtocol == Init /\ [][NextProtocol]_vars

\* ------------------------------------------------- properties: collection

\* The root set: the objects a StructRef (each holds one GcRootPtr) exists for.
RootSet == {h \in Handles : refs[h] > 0}

\* Object a holds the handle of object b in one of its struct(gc) fields.
Points(g, a, b) ==
  /\ Live(g, a)
  /\ Live(g, b)
  /\ LET s == TypeInfoOf(g.objects[a].ty).struct_info
     IN \E i \in 1..Len(s.field_names) :
          /\ TypeInfoOf(s.field_types[i]).struct_info.memory_kind = "GC"
          /\ le_value(ReadBytes(g.memory[g.objects[a].ptr], s.field_offsets[i], PtrSize)) = b

\* The objects a path of struct(gc) fields leads to from the objects of S.
RECURSIVE Closure(_, _)
Closure(g, S) ==
  LET T == S \cup {b \in Handles : \E a \in S : Points(g, a, b)}
  IN IF T = S THEN S ELSE Closure(g, T)

\* The objects reachable from the root set.
Reachable == Closure(gc, RootSet)

\* C1: whatever allocations, roots, root drops and struct(gc) field writes came
\* before, collect() reclaims no object that is reachable from the root set: the
\* object keeps its indirection table entry and its bytes.
GcSafety ==
  \A h \in Reachable :
    Live(gc, h) =>
      /\ collect(gc).objects[h] = gc.objects[h]
      /\ deref(collect(gc), h) = deref(gc, h)

\* A collection left two unrooted objects alive that only a chain of fields
\* from a rooted object leads to.
GcSafetyWitness ==
  /\ last.op = "collect"
  /\ \E a, b, c \in Handles :
       /\ a # b /\ b # c /\ a # c
       /\ refs[a] > 0 /\ refs[b] = 0 /\ refs[c] = 0
       /\ Points(gc, a, b) /\ Points(gc, b, c)

\* C2: an object a RootHandle exists for is live, however many of its
\* RootHandles were dropped before; and an object is reclaimed only by the sweep of
\* a collection at which it is unmarked and has no RootHandle.
RootedNotReclaimed ==
  [][\A h \in Handles :
       /\ refs'[h] > 0 => Live(gc', h)
       /\ (Live(gc, h) /\ ~Live(gc', h)) =>
            /\ last'.op = "collect"
            /\ h \notin mark(gc)
            /\ refs[h] = 0
            /\ gc.objects[h].roots = 0]_vars

\* An object with two RootHandles is live after a collection that followed the
\* reclamation of an object allocated before it.
RootedNotReclaimedWitness ==
  /\ last.op = "collect"
  /\ \E h, p \in Handles :
       p < h /\ ~Live(gc, p) /\ Live(gc, h) /\ refs[h] = 2 /\ gc.objects[h].roots = 2

\* C3: collect() reclaims every object that has no RootHandle and is not reached
\* from a root, returning its memory and invalidating its indirection table entry,
\* and a second collect() right after it changes nothing.
UnreachableReclaimed ==
  LET swept == collect(gc)
  IN /\ \A h \in Handles \ Reachable :
          Live(gc, h) => (~Live(swept, h) /\ swept.memory[gc.objects[h].ptr] = <<>>)
     /\ collect(swept) = swept
     /\ last.op = "collect" => collect(gc) = gc

\* The object allocated first (handles are handed out in order) is gone after a
\* collection, its RootHandles dropped, while an object allocated after it lives
\* on, and its handle is free for the next allocation.
UnreachableReclaimedWitness ==
  /\ last.op = "collect"
  /\ ~Live(gc, 1) /\ refs[1] = 0 /\ 1 \in FreeHandles(gc)
  /\ \E h \in Handles : Live(gc, h) /\ refs[h] = 1 /\ Reachable = {h}

\* -------------------------------------------------- properties: migration

StaticName(T) ==
  CASE T = "StructRef" -> "struct"
    [] T = "unit"      -> "core::empty"
    [] OTHER           -> "core::" \o T

StaticTypeId(T) == md5(StaticName(T))

\* The name and the TypeId a value has at run time: those of its object's type
\* tag for a struct reference, those of its native type otherwise.
ActualType(v) ==
  IF v.ty = "StructRef"
  THEN [guid |-> TypeInfoOf(gc.objects[v.val].ty).guid,
        name |-> TypeInfoOf(gc.objects[v.val].ty).name]
  ELSE [guid |-> StaticTypeId(v.ty), name |-> StaticName(v.ty)]

\* The host can invoke with args: it holds no error and holds every StructRef
\* among them.
Usable(args) == reload = "idle" /\ err = NoErr /\ Holds(<<>>, args)

\* The lookup, the arity check, every argument's check and the return type check
\* of an invocation succeed.
ChecksPass(function_name, args, Output) ==
  /\ function_name \in FunctionNames
  /\ LET signature == FunctionTable(version, function_name).signature
     IN /\ Len(signature.arg_types) = Len(args)
        /\ \A i \in 1..Len(args) :
             ActualType(args[i]).guid = TypeInfoOf(signature.arg_types[i]).guid
        /\ IF signature.return_type = NoType THEN Output = "unit"
           ELSE IF TypeInfoOf(signature.return_type).group = "StructTypes"
           THEN Output = "StructRef"
           ELSE StaticTypeId(Output) = TypeInfoOf(signature.return_type).guid

ArgumentCheck ==
  /\ \A ty \in TypeKeys, v \in Values :
       (v.ty = "StructRef" => Live(gc, v.val)) =>
         LET expected == TypeInfoOf(ty)
             check == equals_argument_type(gc, expected, v)
         IN /\ check.ok <=> (ActualType(v).guid = expected.guid)
            /\ ~check.ok =>
                 (check.expected = expected.name /\ check.found = ActualType(v).name)
  /\ (last.op = "invoke" /\ last.kind = "ArgType") =>
       LET i == last.idx + 1
           expected == TypeInfoOf(FunctionTable(version, err.function_name)
                                    .signature.arg_types[i])
       IN /\ ActualType(err.args[i]).guid # expected.guid
          /\ last.expected = expected.name
          /\ last.found = ActualType(err.args[i]).name
          /\ \A j \in 1..(i - 1) :
               ActualType(err.args[j]).guid =
                 TypeInfoOf(FunctionTable(version, err.function_name)
                              .signature.arg_types[j]).guid

\* A struct reference to a Bar was passed where a Foo is expected: the error
\* names the two struct types.
ArgumentCheckWitness ==
  /\ last.op = "invoke"
  /\ last.kind = "ArgType"
  /\ last.expected = "Foo"
  /\ last.found = "Bar"
  /\ err.args[1].ty = "StructRef"

\* C7: the check of a return type depends on the descriptor's group.  For a
\* fundamental type it succeeds exactly when the static type's TypeId equals the
\* descriptor's; for a struct type exactly when the static type is the generic
\* struct reference, and its failure reports "struct" as expected and the static
\* type's name as found.
ReturnCheck ==
  /\ \A T \in RustTypes, ty \in TypeKeys :
       LET expected == TypeInfoOf(ty)
           check == equals_return_type(T, expected)
       IN IF expected.group = "FundamentalTypes"
          THEN /\ check.ok <=> (StaticTypeId(T) = expected.guid)
               /\ ~check.ok =>
                    (check.expected = expected.name /\ check.found = StaticName(T))
          ELSE /\ check.ok <=> (T = "StructRef")
               /\ ~check.ok => (check.expected = "struct" /\ check.found = StaticName(T))
  /\ (last.op = "invoke" /\ last.kind = "ReturnType") =>
       LET return_type == FunctionTable(version, err.function_name).signature.return_type
       IN /\ last.found = StaticName(err.output)
          /\ last.expected =
               IF return_type = NoType THEN "core::empty"
               ELSE IF TypeInfoOf(return_type).group = "StructTypes" THEN "struct"
               ELSE TypeInfoOf(return_type).name

\* A function that returns a struct was invoked for a u8.
ReturnCheckWitness ==
  /\ last.op = "invoke"
  /\ last.kind = "ReturnType"
  /\ last.expected = "struct"
  /\ last.found = "core::u8"
  /\ err.function_name \in {"new_foo", "id_foo", "id_bar"}

\* ----------------------------------------------- properties: field access

\* The layout of object h, and whether it has a field named f.
LayoutOf(h) == TypeInfoOf(gc.objects[h].ty).struct_info

HasField(h, f) == \E i \in 1..Len(LayoutOf(h).field_names) : LayoutOf(h).field_names[i] = f

\* The declared type and the offset of field f of object h, which has it.
FieldAt(h, f) ==
  LET i == CHOOSE i \in 1..Len(LayoutOf(h).field_names) : LayoutOf(h).field_names[i] = f
  IN [type |-> LayoutOf(h).field_types[i], offset |-> LayoutOf(h).field_offsets[i]]

\* The memory kind of a struct type ("None" for a type that is no struct).
KindOf(type_key) == TypeInfoOf(type_key).struct_info.memory_kind

\* The bytes of a value of struct type type_key at offset of object h in heap g:
\* the struct itself for a struct(value), a GcPtr for a struct(gc).
StructBytes(g, h, offset, type_key) ==
  ReadBytes(g.memory[g.objects[h].ptr], offset,
            IF KindOf(type_key) = "Value" THEN TypeInfoOf(type_key).size_in_bits \div 8
            ELSE PtrSize)

\* The host holds a StructRef to h to access it through.
Accessible(h) == reload = "idle" /\ Available(h) > 0

\* C8: get of a struct(value) field returns a reference to a new allocation, under
\* a handle and in storage no object had before, that holds the bytes of the
\* field, so that a write through the result leaves the containing object as it
\* is; get of a struct(gc) field returns the handle stored in the field and
\* allocates and copies nothing.
GetStructField ==
  \A h \in Handles, f \in AccessNames :
    (/\ Accessible(h)
     /\ HasField(h, f)
     /\ KindOf(FieldAt(h, f).type) # "None"
     /\ get_defined(World(gc, refs), h, f, "StructRef")) =>
      LET field == FieldAt(h, f)
          r == StructRef_get(World(gc, refs), h, f, "StructRef")
          n == r.res.out.val
          after == r.w.gc
      IN /\ r.res.ok
         /\ r.res.out.ty = "StructRef"
         /\ IF KindOf(field.type) = "Value"
            THEN /\ ~Live(gc, n)
                 /\ Live(after, n)
                 /\ after.objects[n].ty = field.type
                 /\ gc.memory[after.objects[n].ptr] = <<>>
                 /\ \A p \in Handles :
                      Live(gc, p) =>
                        /\ after.objects[p] = gc.objects[p]
                        /\ after.objects[p].ptr # after.objects[n].ptr
                        /\ deref(after, p) = deref(gc, p)
                 /\ deref(after, n) = StructBytes(gc, h, field.offset, field.type)
                 /\ LET written == StructRef_set(r.w, n, "x", Value("u8", 9))
                    IN /\ written.res.ok
                       /\ deref(written.w.gc, n) # deref(after, n)
                       /\ deref(written.w.gc, h) = deref(gc, h)
            ELSE /\ n = le_value(StructBytes(gc, h, field.offset, field.type))
                 /\ after.memory = gc.memory
                 /\ \A p \in Handles :
                      /\ Live(after, p) <=> Live(gc, p)
                      /\ p # n => after.objects[p] = gc.objects[p]

\* The host has just read the struct(value) field of an object whose field holds
\* a 7: the result is a Bar of its own that holds the 7 too.
GetStructFieldWitness ==
  /\ last.op = "get"
  /\ last.ok
  /\ \E n, h \in Handles :
       /\ last.out = Value("StructRef", n)
       /\ n # h
       /\ gc.objects[n].ty = BarTy
       /\ refs[n] = 1
       /\ deref(gc, n) = <<7, 0>>
       /\ gc.objects[h].ty = FooTy1
       /\ StructBytes(gc, h, 8, BarTy) = <<7, 0>>

\* What get::<T> refuses: a field the layout does not have, a fundamental field
\* whose TypeId is not T's, a struct field when T is not the struct reference.
GetRejected(h, f, T) ==
  \/ ~HasField(h, f)
  \/ LET declared == TypeInfoOf(FieldAt(h, f).type)
     IN IF declared.group = "FundamentalTypes" THEN StaticTypeId(T) # declared.guid
        ELSE T # "StructRef"

\* What set and replace refuse: a field the layout does not have, a value whose
\* TypeId is not the declared type's.
PutRejected(h, f, v) ==
  \/ ~HasField(h, f)
  \/ ActualType(v).guid # TypeInfoOf(FieldAt(h, f).type).guid

\* What the TypeId of T alone would refuse of a get::<T>.
GetRejectedByTypeId(h, f, T) ==
  \/ ~HasField(h, f)
  \/ StaticTypeId(T) # TypeInfoOf(FieldAt(h, f).type).guid

\* Heap g has the live allocations and the bytes of the current heap.
SameHeap(g) ==
  /\ g.memory = gc.memory
  /\ \A p \in Handles : g.objects[p].ty = gc.objects[p].ty /\ g.objects[p].ptr = gc.objects[p].ptr

\* Every set and replace the host can make on h answers to accepts: it fails, with
\* the heap as it was, when PutRejected, and succeeds otherwise.
PutsChecked(h, f) ==
  \A v \in AccessValues :
    Holds(<<Value("StructRef", h)>>, <<v>>) =>
      /\ LET r == StructRef_set(World(gc, refs), h, f, v)
         IN /\ ~r.res.ok <=> PutRejected(h, f, v)
            /\ PutRejected(h, f, v) => SameHeap(r.w.gc)
      /\ replace_defined(World(gc, refs), h, f, v) =>
           LET r == StructRef_replace(World(gc, refs), h, f, v)
           IN /\ ~r.res.ok <=> PutRejected(h, f, v)
              /\ PutRejected(h, f, v) => SameHeap(r.w.gc)

\* C10 (as amended): get, set and replace return an error, with every byte and
\* the live allocations as they were, when the layout has no field of that name
\* or the type check fails, and succeed otherwise.  For set and replace the check
\* is that of the value's TypeId against the declared type's; for get it is the
\* return type check: TypeId against TypeId for a fundamental field, and for a
\* struct field that the expected type is the struct reference.
FieldAccessChecked ==
  \A h \in Handles, f \in AccessNames :
    Accessible(h) =>
      /\ \A T \in AccessTypes :
           get_defined(World(gc, refs), h, f, T) =>
             LET r == StructRef_get(World(gc, refs), h, f, T)
             IN /\ ~r.res.ok <=> GetRejected(h, f, T)
                /\ GetRejected(h, f, T) => r.w = World(gc, refs)
      /\ PutsChecked(h, f)

\* C10 (as stated): get, set and replace return an error, with every byte and
\* the live allocations as they were, when the layout has no field of that name
\* or the TypeId of the supplied or expected type differs from the declared
\* type's.
FieldAccessCheckedByTypeId ==
  \A h \in Handles, f \in AccessNames :
    Accessible(h) =>
      /\ \A T \in AccessTypes :
           get_defined(World(gc, refs), h, f, T) =>
             LET r == StructRef_get(World(gc, refs), h, f, T)
             IN GetRejectedByTypeId(h, f, T) => (~r.res.ok /\ r.w = World(gc, refs))
      /\ PutsChecked(h, f)

\* A set of a Bar into a field declared Foo has failed, and the object it was
\* made on holds the bytes written to it before.
FieldAccessCheckedWitness ==
  /\ last.op = "set"
  /\ ~last.ok
  /\ last.kind = "FieldType"
  /\ last.expected = "Foo"
  /\ last.found = "Bar"
  /\ \E h \in Handles :
       /\ refs[h] > 0
       /\ gc.objects[h].ty = FooTy1
       /\ StructBytes(gc, h, 8, BarTy) = <<7, 0>>

\* ---------------------------------------- properties: the memory kinds

\* get of field f of h hands the host a copy: a new object with the field's bytes.
GetCopies(h, f) ==
  LET r == StructRef_get(World(gc, refs), h, f, "StructRef")
  IN /\ ~Live(gc, r.res.out.val)
     /\ deref(r.w.gc, r.res.out.val) =
          StructBytes(gc, h, FieldAt(h, f).offset, FieldAt(h, f).type)

\* get of field f of h hands the host the handle the field holds, the heap as it is.
GetShares(h, f) ==
  LET r == StructRef_get(World(gc, refs), h, f, "StructRef")
  IN /\ r.res.out.val = le_value(ReadBytes(deref(gc, h), FieldAt(h, f).offset, PtrSize))
     /\ r.w.gc.memory = gc.memory

\* A write of v to field f of h, which left heap g, copied the bytes of v's object
\* into the field.
PutCopied(g, h, f, v) ==
  LET size == TypeInfoOf(FieldAt(h, f).type).size_in_bits \div 8
  IN ReadBytes(deref(g, h), FieldAt(h, f).offset, size) = ReadBytes(deref(gc, v.val), 0, size)

\* A write of v to field f of h, which left heap g, stored v's handle in the field.
PutShared(g, h, f, v) ==
  le_value(ReadBytes(deref(g, h), FieldAt(h, f).offset, PtrSize)) = v.val

\* The compiled function was passed a copy of the struct v: a new object.
ArgumentCopies(fn, v) ==
  LET r == invoke_fn(World(gc, refs), version, fn, <<v>>, "StructRef")
  IN r.called /\ ~Live(gc, r.res.passed[1])

\* The compiled function was passed the handle of the struct v.
ArgumentShares(fn, v) ==
  LET r == invoke_fn(World(gc, refs), version, fn, <<v>>, "StructRef")
  IN r.called /\ r.res.passed = <<v.val>>

\* The host was handed a copy of the struct the compiled function returned.
ReturnCopies(fn, v) ==
  LET r == invoke_fn(World(gc, refs), version, fn, <<v>>, "StructRef")
  IN /\ r.called
     /\ r.res.out.val # r.res.returned
     /\ deref(r.w.gc, r.res.out.val) = deref(r.w.gc, r.res.returned)

\* The host was handed the handle the compiled function returned, and the
\* invocation (of a function that allocates nothing) left the memory as it was.
ReturnShares(fn, v) ==
  LET r == invoke_fn(World(gc, refs), version, fn, <<v>>, "StructRef")
  IN /\ r.called
     /\ r.res.out = Value("StructRef", r.res.returned)
     /\ r.w.gc.memory = gc.memory

\* The field accessors apply the memory kind of the field's type: get, set and
\* replace copy a struct(value) and pass the handle of a struct(gc).
AccessorsApplyKind ==
  \A h \in Handles, f \in CrossingNames :
    (Accessible(h) /\ HasField(h, f)) =>
      LET kind == KindOf(FieldAt(h, f).type)
      IN /\ get_defined(World(gc, refs), h, f, "StructRef") =>
              IF kind = "Value" THEN GetCopies(h, f) ELSE GetShares(h, f)
         /\ \A v \in RefValues :
              (/\ Holds(<<Value("StructRef", h)>>, <<v>>)
               /\ ~PutRejected(h, f, v)) =>
                /\ LET r == StructRef_set(World(gc, refs), h, f, v)
                   IN IF kind = "Value" THEN PutCopied(r.w.gc, h, f, v)
                      ELSE PutShared(r.w.gc, h, f, v)
                /\ replace_defined(World(gc, refs), h, f, v) =>
                     LET r == StructRef_replace(World(gc, refs), h, f, v)
                     IN IF kind = "Value"
                        THEN /\ PutCopied(r.w.gc, h, f, v)
                             /\ ~Live(gc, r.res.out.val)
                             /\ deref(r.w.gc, r.res.out.val) =
                                  StructBytes(gc, h, FieldAt(h, f).offset, FieldAt(h, f).type)
                        ELSE /\ PutShared(r.w.gc, h, f, v)
                             /\ r.res.out.val =
                                  le_value(ReadBytes(deref(gc, h), FieldAt(h, f).offset, PtrSize))

\* The invocations of the functions that take a struct and return it, with the
\* struct references that pass their checks.
Crossings ==
  {c \in {"id_foo", "id_bar"} \X RefValues :
     Usable(<<c[2]>>) /\ ChecksPass(c[1], <<c[2]>>, "StructRef")}

\* C9 (as amended): the memory kind is applied by every field accessor, which
\* copies a struct(value) and passes a struct(gc) by its handle; the argument path
\* and the return path of an invocation pass a struct of either kind by its
\* handle, and copy nothing.
KindAppliedByAccessors ==
  /\ AccessorsApplyKind
  /\ \A c \in Crossings : ArgumentShares(c[1], c[2]) /\ ReturnShares(c[1], c[2])

\* C9 (as stated): the memory kind is applied by the argument path and the return
\* path of an invocation and by every field accessor: each copies a struct(value)
\* and passes a struct(gc) by its handle.
KindAppliedUniformly ==
  /\ AccessorsApplyKind
  /\ \A c \in Crossings :
       IF KindOf(gc.objects[c[2].val].ty) = "Value"
       THEN ArgumentCopies(c[1], c[2]) /\ ReturnCopies(c[1], c[2])
       ELSE ArgumentShares(c[1], c[2]) /\ ReturnShares(c[1], c[2])

\* A Bar that holds a 7 went through id_bar: the function was passed the handle
\* the host held, and the host was handed the same handle back, no object added.
KindAppliedByAccessorsWitness ==
  /\ last.op = "invoke"
  /\ last.called
  /\ last.function_name = "id_bar"
  /\ \E h \in Handles :
       /\ last.passed = <<h>>
       /\ last.returned = h
       /\ last.out = Value("StructRef", h)
       /\ gc.objects[h].ty = BarTy
       /\ deref(gc, h) = <<7, 0>>
       /\ \A p \in Handles \ {h} : ~Live(gc, p) \/ gc.objects[p].ty # BarTy

\* ------------------------------------------------- properties: replace

\* The bytes the field of declared type type_key takes in its object.
FieldBytes(g, h, offset, type_key) ==
  ReadBytes(g.memory[g.objects[h].ptr], offset,
            IF KindOf(type_key) = "None" THEN TypeInfoOf(type_key).size_in_bits \div 8
            ELSE Len(StructBytes(g, h, offset, type_key)))

\* The bytes of object h in heap g that lie outside the len bytes at offset.
Outside(g, h, offset, len) ==
  [i \in {j \in 1..Len(g.memory[g.objects[h].ptr]) : j <= offset \/ j > offset + len} |->
     g.memory[g.objects[h].ptr][i]]

\* C11: a successful replace(field, v) returns the value the field held right
\* before the call, leaves the field holding v and changes no byte of the object
\* outside the field.  For a fundamental field the old number is returned; for a
\* struct(gc) field the old handle; for a struct(value) field a reference to an
\* object of its own that holds the old bytes after v's bytes were written.
ReplaceSwaps ==
  \A h \in Handles, f \in AccessNames, v \in AccessValues :
    (/\ reload = "idle"
     /\ Holds(<<Value("StructRef", h)>>, <<v>>)
     /\ ~PutRejected(h, f, v)
     /\ replace_defined(World(gc, refs), h, f, v)) =>
      LET field == FieldAt(h, f)
          before == FieldBytes(gc, h, field.offset, field.type)
          r == StructRef_replace(World(gc, refs), h, f, v)
          after == r.w.gc
          now == FieldBytes(after, h, field.offset, field.type)
      IN /\ r.res.ok
         /\ r.res.out.ty = v.ty
         /\ Len(deref(after, h)) = Len(deref(gc, h))
         /\ Outside(after, h, field.offset, Len(before)) =
              Outside(gc, h, field.offset, Len(before))
         /\ CASE KindOf(field.type) = "None" ->
                   /\ r.res.out.val = le_value(before)
                   /\ le_value(now) = v.val
              [] KindOf(field.type) = "GC" ->
                   /\ r.res.out.val = le_value(before)
                   /\ le_value(now) = v.val
              [] KindOf(field.type) = "Value" ->
                   /\ ~Live(gc, r.res.out.val)
                   /\ deref(after, r.res.out.val) = before
                   /\ now = deref(gc, v.val)

\* A Bar that holds a 7 was put by replace into the field of a Foo that held a
\* zeroed Bar: the host got a Bar of its own that is still zeroed, and the field
\* holds the 7.
ReplaceSwapsWitness ==
  /\ last.op = "replace"
  /\ last.ok
  /\ \E h, n \in Handles :
       /\ h # n
       /\ refs[h] > 0
       /\ gc.objects[h].ty = FooTy1
       /\ last.out = Value("StructRef", n)
       /\ gc.objects[n].ty = BarTy
       /\ deref(gc, n) = <<0, 0>>
       /\ StructBytes(gc, h, 8, BarTy) = <<7, 0>>

\* ------------------------------------------------- properties: round trip

\* The value read back at offset of object h after value was written there.
ReadBack(h, offset, value) ==
  primitive_marshal_from_ptr(
    World(primitive_marshal_to_ptr(gc, value, h, offset), refs), h, offset, value.ty).value

\* C12: a fundamental value written to memory and read back as its type is the
\* value written; and a successful set(field, v) of a fundamental v followed by
\* get(field) returns v, also when another field was written in between.
RoundTrip ==
  /\ \A h \in Handles, T \in RoundTripTypes :
       Live(gc, h) =>
         \A offset \in 0..(Len(deref(gc, h)) - size_of(T)), n \in ValuesOf(T) :
           ReadBack(h, offset, Value(T, n)) = Value(T, n)
  /\ \A h \in Handles, f \in RoundTripNames, v \in RoundTripValues :
       (/\ reload = "idle"
        /\ Holds(<<Value("StructRef", h)>>, <<v>>)
        /\ ~PutRejected(h, f, v)) =>
         LET written == StructRef_set(World(gc, refs), h, f, v)
         IN /\ written.res.ok
            /\ StructRef_get(written.w, h, f, v.ty).res = Success("get", v)
            /\ \A f2 \in RoundTripNames \ {f}, v2 \in RoundTripValues :
                 ~PutRejected(h, f2, v2) =>
                   LET other == StructRef_set(written.w, h, f2, v2)
                   IN /\ other.res.ok
                      /\ StructRef_get(other.w, h, f, v.ty).res = Success("get", v)

\* The host has read back the 255 it wrote to the u8 field of a Bar whose bool
\* field holds true.
RoundTripWitness ==
  /\ last = Success("get", Value("u8", 255))
  /\ \E h \in Handles :
       /\ refs[h] > 0
       /\ gc.objects[h].ty = BarTy
       /\ deref(gc, h) = <<255, 1>>

\* ------------------------------------------- properties: diff and mapping

\* Whether layout has a field of that name, and the index of the field.
HasName(layout, name) == \E i \in 1..Len(layout.field_names) : layout.field_names[i] = name

IndexIn(layout, name) ==
  CHOOSE i \in 1..Len(layout.field_names) : layout.field_names[i] = name

\* The number of bytes a field of that type takes.
BytesOf(ty) == IF KindOf(ty) = "GC" THEN PtrSize ELSE TypeInfoOf(ty).size_in_bits \div 8

\* The bytes of field i of layout in a buffer.
FieldIn(buffer, layout, i) ==
  [k \in 1..BytesOf(layout.field_types[i]) |-> buffer[layout.field_offsets[i] + k]]

\* The positions of a buffer of that layout that belong to no field.
Padding(layout, len) ==
  {k \in 1..len :
     \A i \in 1..Len(layout.field_names) :
       k <= layout.field_offsets[i] \/ k > layout.field_offsets[i] + BytesOf(layout.field_types[i])}

DiffByName ==
  last.op = "apply" =>
    LET old == last.out.old
        new == last.out.new
        d == last.out.diff
        names == {old.field_names[i] : i \in 1..Len(old.field_names)}
                   \cup {new.field_names[i] : i \in 1..Len(new.field_names)}
    IN /\ \A name \in names : Cardinality({e \in 1..Len(d) : d[e].name = name}) = 1
       /\ \A e \in 1..Len(d) : d[e].name \in names
       /\ \A e \in 1..Len(d) :
            LET name == d[e].name
            IN CASE HasName(old, name) /\ HasName(new, name) ->
                      LET i == IndexIn(old, name)
                          j == IndexIn(new, name)
                      IN /\ d[e].old_index = i
                         /\ d[e].new_index = j
                         /\ d[e].kind =
                              IF TypeInfoOf(old.field_types[i]).guid
                                   # TypeInfoOf(new.field_types[j]).guid
                              THEN "TypeChanged"
                              ELSE IF old.field_offsets[i] = new.field_offsets[j]
                              THEN "Unchanged"
                              ELSE "Moved"
                 [] HasName(new, name) /\ ~HasName(old, name) ->
                      d[e].kind = "Added" /\ d[e].new_index = IndexIn(new, name)
                 [] HasName(old, name) /\ ~HasName(new, name) ->
                      d[e].kind = "Removed" /\ d[e].old_index = IndexIn(old, name)

\* { a: u8, b: u16 } was diffed against { b: u8, c: u8 }: b, second in old and
\* first in new, is matched with itself and its type has changed, while the u8
\* first in old and the u8 second in new, of different names, are a Removed and an
\* Added.
DiffByNameWitness ==
  /\ last.op = "apply"
  /\ last.out.old = StructLayout(<<"a", "b">>, <<u8Ty, u16Ty>>)
  /\ last.out.new = StructLayout(<<"b", "c">>, <<u8Ty, u8Ty>>)
  /\ last.out.diff = <<FieldDiff("TypeChanged", "b", 2, 1), FieldDiff("Added", "c", 0, 2),
                       FieldDiff("Removed", "a", 1, 0)>>

\* ------------------------------------------------- properties: reload

\* The layout of a struct type.
LayoutOfType(type_key) == TypeInfoOf(type_key).struct_info

\* What a read of field name of object h through a StructRef returns in world w.
ReadField(w, h, name, T) == StructRef_get(w, h, name, T).res

\* C15: a reload migrates every instance of a changed type that was live before
\* it.  After a reload that adds a field, the added field of each is zero and
\* every field it had holds the value it held; after a reload that removes a
\* field, each keeps the values of the fields that remain and has the new, smaller
\* size.  The host reads the same through its struct references.
ReloadKeepsFields ==
  /\ [](reload \in {"idle", "swapped"} =>
          \A h \in Handles :
            (Live(gc, h) /\ TypeInfoOf(gc.objects[h].ty).name = "Foo") =>
              gc.objects[h].ty = FooTy(version))
  /\ [][\A h \in Handles :
          (Live(gc, h) /\ Live(gc', h) /\ gc'.objects[h].ty # gc.objects[h].ty) =>
            LET old == LayoutOfType(gc.objects[h].ty)
                new == LayoutOfType(gc'.objects[h].ty)
                before == World(gc, refs)
                after == World(gc', refs')
            IN /\ gc.objects[h].ty = FooTy(version)
               /\ gc'.objects[h].ty = FooTy(version + 1)
               /\ Len(deref(gc', h)) = TypeInfoOf(gc'.objects[h].ty).size_in_bits \div 8
               /\ Len(new.field_names) < Len(old.field_names) =>
                    Len(deref(gc', h)) < Len(deref(gc, h))
               /\ \A j \in 1..Len(new.field_names) :
                    IF HasName(old, new.field_names[j])
                    THEN FieldIn(deref(gc', h), new, j)
                           = FieldIn(deref(gc, h), old, IndexIn(old, new.field_names[j]))
                    ELSE \A k \in 1..BytesOf(new.field_types[j]) :
                           FieldIn(deref(gc', h), new, j)[k] = 0
               /\ (HasName(new, "flag") /\ ~HasName(old, "flag")) =>
                    ReadField(after, h, "flag", "u8") = Success("get", Value("u8", 0))
               /\ (HasName(old, "v") /\ ~HasName(new, "v")) =>
                    ~ReadField(after, h, "v", "StructRef").ok
               /\ get_defined(before, h, "next", "StructRef") =>
                    /\ get_defined(after, h, "next", "StructRef")
                    /\ ReadField(after, h, "next", "StructRef")
                         = ReadField(before, h, "next", "StructRef")]_vars

\* The second reload, which removes v, has migrated an object the host holds: it
\* has the size of the new layout, its flag, added by the first reload, is zero,
\* and its next field holds the handle of another object.
ReloadKeepsFieldsWitness ==
  /\ last.op = "migrate"
  /\ version = 2
  /\ \E h, p \in Handles :
       /\ last.out = Value("StructRef", h)
       /\ h # p
       /\ refs[h] > 0
       /\ gc.objects[h].ty = FooTy3
       /\ Len(deref(gc, h)) = 16
       /\ deref(gc, h)[1] = 0
       /\ Points(gc, h, p)

\* The step the reload protocol takes from one position to the next.
ReloadStep(from, to) ==
  CASE from = "idle"    /\ to = "begun"   -> "begin_reload"
    [] from = "begun"   /\ to = "diffed"  -> "diff"
    [] from = "diffed"  /\ to = "swapped" -> "swap"
    [] from = "swapped" /\ to = "idle"    -> "end_reload"
    [] OTHER -> "none"

\* C16: a reload goes through begin_reload, the diff of the types both descriptor
\* sets hold, the migration of every live instance of those types, the swap of the
\* tables and end_reload, in this order.  The tables are swapped only when no live
\* instance of a changed type is unmigrated, and between begin_reload and
\* end_reload there is no allocation, invocation, field access or collection: the
\* only steps are those of the protocol, which leave the struct references alone
\* and the heap too, but for the instance a migration rewrites.
ReloadInOrder ==
  /\ [](reload \in {"idle", "begun", "diffed", "swapped"})
  /\ [](reload = "swapped" =>
          \A h \in Handles : Live(gc, h) => gc.objects[h].ty # FooTy(version - 1))
  /\ [][/\ reload' # reload =>
             /\ ReloadStep(reload, reload') # "none"
             /\ last'.op = ReloadStep(reload, reload')
        /\ version' # version =>
             /\ last'.op = "swap"
             /\ version' = version + 1
             /\ \A h \in Handles : Live(gc, h) => gc.objects[h].ty # FooTy(version)
        /\ last'.op = "migrate" =>
             /\ reload = "diffed"
             /\ reload' = "diffed"
             /\ \A h \in Handles \ {last'.out.val} :
                  /\ gc'.objects[h] = gc.objects[h]
                  /\ Live(gc, h) => deref(gc', h) = deref(gc, h)
        /\ reload # "idle" =>
             /\ last'.op \in {"diff", "migrate", "swap", "end_reload"}
             /\ refs' = refs
             /\ err' = err
             /\ last'.op # "migrate" => gc' = gc
             /\ \A h \in Handles : Live(gc', h) <=> Live(gc, h)]_vars

\* The second reload has ended with a struct of the last version in the host's
\* hands, while an object it has dropped awaits the collection that could not run
\* during the reload.
ReloadInOrderWitness ==
  /\ last.op = "end_reload"
  /\ reload = "idle"
  /\ version = 3
  /\ \E h, p \in Handles :
       /\ refs[h] > 0
       /\ gc.objects[h].ty = FooTy3
       /\ Live(gc, p)
       /\ p \notin Reachable

\* ------------------------------------------------- properties: descriptors

\* C17: two descriptors compare equal exactly when their TypeIds are equal,
\* whatever their size, alignment, group and layout are; descriptors that compare
\* equal hash equally, the hash being that of the TypeId alone; and two
\* descriptors of the same name compare equal whatever their layouts.
EqualByTypeId ==
  last.op = "eq" =>
    LET a == last.out.a
        b == last.out.b
    IN /\ last.out.eq <=> (a.guid = b.guid)
       /\ last.out.eq => last.out.hash_a = last.out.hash_b
       /\ last.out.hash_a = <<a.guid>>
       /\ last.out.hash_b = <<b.guid>>
       /\ a.name = b.name => last.out.eq

\* The descriptors of Foo before and after the first reload, of different sizes
\* and layouts, have compared equal and hashed equally.
EqualByTypeIdWitness ==
  /\ last.op = "eq"
  /\ last.out.a = TypeInfoOf(FooTy1)
  /\ last.out.b = TypeInfoOf(FooTy2)
  /\ last.out.a.size_in_bits # last.out.b.size_in_bits
  /\ last.out.a.struct_info # last.out.b.struct_info
  /\ last.out.eq
  /\ last.out.hash_a = last.out.hash_b

\* ------------------------------------------------- properties: sizes

\* size_in_bits rounded up to whole bytes: the whole bytes, and one more when bits
\* remain.
RoundedUp(size_in_bits) ==
  LET whole == u32_div8(size_in_bits)
  IN IF size_in_bits.lo % 8 = 0 THEN whole
     ELSE [hi |-> whole.hi + (whole.lo + 1) \div 65536, lo |-> (whole.lo + 1) % 65536]

\* C18 (as stated): for every value of the 32-bit size_in_bits, those within 7 of
\* the maximum included, size_in_bytes() returns size_in_bits rounded up to a whole
\* number of bytes, and size_in_bits() and alignment() return the stored values.
SizeRoundedUp ==
  last.op = "sizes" =>
    /\ ~last.out.panicked
    /\ last.out.size_in_bytes = RoundedUp(last.out.type_info.size_in_bits)
    /\ last.out.size_in_bits = last.out.type_info.size_in_bits
    /\ last.out.alignment = last.out.type_info.alignment

\* What holds of size_in_bytes(): it returns the size rounded up for every
\* size_in_bits the addition of 7 does not overflow for.
SizeRoundedUpBelowOverflow ==
  last.op = "sizes" =>
    /\ ~u32_add(last.out.type_info.size_in_bits, 7).overflow =>
         /\ ~last.out.panicked
         /\ last.out.size_in_bytes = RoundedUp(last.out.type_info.size_in_bits)
    /\ last.out.size_in_bits = last.out.type_info.size_in_bits
    /\ last.out.alignment = last.out.type_info.alignment

\* A descriptor of 24 bits has 3 bytes.
SizeRoundedUpBelowOverflowWitness ==
  /\ last.op = "sizes"
  /\ last.out.type_info.size_in_bits = to_u32(24)
  /\ last.out.size_in_bytes = to_u32(3)
  /\ last.out.alignment = 8

\* ----------------------------------------- properties: backend and runtime

\* C19 (as stated): the backend and the runtime agree on the identity of the
\* fundamental types. Whenever a compiled function is invoked with native
\* arguments and an output type that correspond to its signature, the name and
\* the TypeId in the descriptor of each parameter are those the runtime
\* reflection reports for the argument, the name and the TypeId in the
\* descriptor of the return type are those it reports for the output type, and
\* the invocation passes the checks and calls the function.
BackendAgrees ==
  [][\A function_name \in CompiledNames, args \in BackendArgs,
        Output \in BackendOutputs :
       (InvokeFn(function_name, args, Output)
          /\ Corresponds(function_name, args, Output))
       => LET signature == get_function_info(version, function_name).signature
          IN /\ \A i \in 1..Len(args) :
                  LET type_info == TypeInfoOf(signature.arg_types[i])
                  IN /\ type_info.name = argument_type_name(gc, args[i])
                     /\ type_info.guid = argument_type_guid(gc, args[i])
             /\ signature.return_type # NoType =>
                  LET type_info == TypeInfoOf(signature.return_type)
                  IN /\ type_info.name = return_type_name(Output)
                     /\ type_info.guid = return_type_guid(Output)
             /\ last'.ok
             /\ last'.called]_vars

\* The descriptors the backend makes and those the runtime reflection reports.
IdentifiedTypes ==
  {type_info_query(ty) : ty \in MunFundamentals \cup MunStructs}
    \cup {[guid |-> TypeInfoOf(key).guid, name |-> TypeInfoOf(key).name,
           group |-> TypeInfoOf(key).group] : key \in TypeKeys \cup BackendKeys}
    \cup {[guid |-> return_type_guid(T), name |-> return_type_name(T),
           group |-> "FundamentalTypes"] : T \in PrimitiveTypes \cup {"unit"}}

\* C19 (the part the code keeps): the TypeId is a function of the name only,
\* on both sides, and a function without a return type invoked without
\* arguments for the output type () passes the checks.
TypeIdByName ==
  /\ \A a, b \in IdentifiedTypes : a.name = b.name <=> a.guid = b.guid
  /\ \A a \in IdentifiedTypes : a.guid = md5(a.name)
  /\ \A s \in MunFundamentals \cup MunStructs, t \in MunFundamentals \cup MunStructs :
       LET a == type_info_query(s)
           b == type_info_query(t)
       IN /\ ir_TypeInfo_eq(a, b) <=> a.name = b.name
          /\ ir_TypeInfo_eq(a, b) => ir_TypeInfo_hash(a) = ir_TypeInfo_hash(b)
  /\ ~(err.function_name = "tick" /\ err.args = <<>> /\ err.output = "unit")

TypeIdByNameWitness ==
  /\ last.op = "invoke"
  /\ last.called
  /\ last.function_name = "tick"

\* --------------------------------------- properties: root registrations

\* The root registrations of every object.
RootCount(g) == [h \in Handles |-> g.objects[h].roots]

\* The registrations left when the StructRefs among values are released, and
\* those there are when a StructRef is made of value.
Released(count, values) == [h \in Handles |-> count[h] - RefsIn(values, h)]
Acquired(count, value) == [h \in Handles |-> count[h] + RefsIn(<<value>>, h)]

\* C20: root registrations are balanced on every path.  In every reachable
\* state the root registrations of an object are as many as the live StructRefs
\* to it.  Every operation changes them by exactly the StructRefs it makes and
\* releases: a drop removes one; a field read or an invocation that returns a
\* StructRef adds one for it; an invocation that succeeds releases its
\* arguments; one that fails changes nothing and keeps them in the error, which
\* releases them when it is dropped; a read that fails changes nothing; a write
\* releases the value it was given, also when it fails.  An object survives a
\* collection only if it is reachable from an object a live StructRef refers to:
\* a handle that came out of into_raw keeps nothing alive.
RootsBalanced ==
  /\ [](\A h \in Handles : gc.objects[h].roots = refs[h])
  /\ [][\A h \in Handles :
         (last'.op = "drop" /\ DropRef(h)) => RootCount(gc') = Released(RootCount(gc), <<Value("StructRef", h)>>)]_vars
  /\ [][\A h \in Handles, f \in RootNames :
         (last'.op = "get" /\ Get(h, f, "StructRef")) =>
           RootCount(gc') = IF last'.ok THEN Acquired(RootCount(gc), last'.out)
                            ELSE RootCount(gc)]_vars
  /\ [][\A h \in Handles, f \in RootNames, v \in RefValues :
         (last'.op = "set" /\ Set(h, f, v)) => RootCount(gc') = Released(RootCount(gc), <<v>>)]_vars
  /\ [][\A fn \in RootFunctions \cup {"new_foo"}, args \in {<<>>} \cup {<<v>> : v \in RefValues},
          Output \in RootOutputs :
         (last'.op = "invoke" /\ InvokeFn(fn, args, Output)) =>
           IF last'.ok
           THEN /\ err' = NoErr
                /\ RootCount(gc') = Acquired(Released(RootCount(gc), args), last'.out)
           ELSE /\ err'.args = args
                /\ RootCount(gc') = RootCount(gc)]_vars
  /\ [][(last'.op = "drop_err" /\ DropErr) =>
         RootCount(gc') = Released(RootCount(gc), err.args)]_vars
  /\ [][(last'.op = "collect" /\ Collect) =>
         /\ RootCount(gc') = RootCount(gc)
         /\ \A h \in Handles :
              Live(gc', h) => h \in Closure(gc, {k \in Handles : refs[k] > 0})]_vars

\* An invocation has failed: its error keeps the StructRef it was passed, the
\* host holds another to the same object, and the object has the two
\* registrations; another object, written to a field, has none left.
RootsBalancedWitness ==
  /\ last.op = "invoke" /\ ~last.ok
  /\ \E h \in Handles :
       /\ RefsIn(err.args, h) = 1
       /\ refs[h] = 2 /\ gc.objects[h].roots = 2
       /\ \E k \in Handles \ {h} :
            Live(gc, k) /\ refs[k] = 0 /\ gc.objects[k].roots = 0 /\ Points(gc, h, k)

\* -------------------------------------- properties: the order of the checks

\* What the first failing check of an invocation reports, <<kind, expected,
\* found, index>>, the checks taken in the order lookup, argument count,
\* arguments by increasing index, return type; <<"", "", "", 0>> when none fails.
FirstFailure(g, ver, function_name, args, Output) ==
  LET function_info == get_function_info(ver, function_name)
      arg_types == function_info.signature.arg_types
      differs(i) == TypeInfoOf(arg_types[i]).guid # argument_type_guid(g, args[i])
      output == check_output(function_info, Output)
  IN IF function_info = NoFunction THEN <<"NoFunction", "", "", 0>>
     ELSE IF Len(arg_types) # Len(args) THEN <<"ArgCount", "", "", 0>>
     ELSE IF \E i \in 1..Len(args) : differs(i)
     THEN LET i == CHOOSE i \in 1..Len(args) :
                     differs(i) /\ \A j \in 1..(i - 1) : ~differs(j)
          IN <<"ArgType", TypeInfoOf(arg_types[i]).name,
               argument_type_name(g, args[i]), i - 1>>
     ELSE IF ~output.ok THEN <<"ReturnType", output.expected, output.found, 0>>
     ELSE <<"", "", "", 0>>

\* The result of an invocation is the one its first failing check decides.
FirstFailureDecides(function_name, args, Output) ==
  LET first == FirstFailure(gc, version, function_name, args, Output)
  IN /\ last'.ok <=> first[1] = ""
     /\ ~last'.ok => /\ <<last'.kind, last'.expected, last'.found, last'.idx>> = first
                      /\ ~last'.called

\* C21 (as stated): the checks of an invocation run in the order lookup,
\* argument count, arguments by increasing index, return type, and the first
\* that fails decides the error, an argument mismatch naming the lowest
\* differing index, the parameter's type name as expected and the argument's as
\* found; and a function expecting (int, float) -> bool called with two ints
\* fails at argument index 1, expected "core::float", found "core::int".
ChecksInOrderWithScenario ==
  [][\A function_name \in OrderNames, args \in OrderArgs, Output \in OrderOutputs :
       InvokeFn(function_name, args, Output) =>
         /\ FirstFailureDecides(function_name, args, Output)
         /\ (function_name = "less" /\ args = <<Value("i64", 5), Value("i64", 5)>>) =>
              /\ ~last'.ok
              /\ last'.kind = "ArgType"
              /\ last'.idx = 1
              /\ last'.expected = "core::float"
              /\ last'.found = "core::int"]_vars

\* C21 (the part the code keeps): the checks run in that order and the first
\* that fails decides the error, with the names the descriptor and the
\* argument carry.
ChecksInOrder ==
  [][\A function_name \in OrderNames, args \in OrderArgs, Output \in OrderOutputs :
       InvokeFn(function_name, args, Output) =>
         FirstFailureDecides(function_name, args, Output)]_vars

\* pick(a: u8, b: bool) -> u8 was called with two u8 for an output of the wrong
\* type: the second argument is the first thing to mismatch and decides the
\* error.
ChecksInOrderWitness ==
  /\ last.op = "invoke" /\ ~last.ok
  /\ err.function_name = "pick"
  /\ err.args = <<Value("u8", 7), Value("u8", 7)>>
  /\ err.output = "bool"
  /\ last.kind = "ArgType" /\ last.idx = 1
  /\ last.expected = "core::bool" /\ last.found = "core::u8"

\* ------------------------------------------------ properties: retry and wait

\* retry() and wait() on a success give the output back and invoke nothing.
SuccessGivenBack ==
  (retry.mode = "none" /\ retry'.mode = "none" /\ last.ok /\ last'.op \in RetryModes
     /\ last.op \in {"invoke", "retry"})
  => /\ last' = [last EXCEPT !.op = last'.op]
     /\ UNCHANGED <<gc, refs, err, version>>

\* While retry() or wait() polls, nothing is invoked; the polling ends only
\* with an update that returned true, having reloaded the module.
PollsUntilUpdated ==
  (retry'.mode # "none" /\ (retry.mode = "none" \/ ~retry.updated))
  => /\ UNCHANGED <<refs, err, last>>
     /\ retry'.updated => version' = version + 1
     /\ retry.mode = "none" => ~retry'.updated

\* retry() on an error returns with the one invocation it makes, of the
\* function and with the arguments and the output type the error kept, after
\* update returned true.
InvokedOnceAgain ==
  (retry.mode = "retry" /\ retry'.mode = "none")
  => /\ retry.updated
     /\ LET r == invoke_fn(World(gc, refs), version, err.function_name, err.args,
                           err.output)
        IN /\ last' = [r.res EXCEPT !.op = "retry"]
           /\ gc' = r.w.gc /\ refs' = r.w.refs /\ err' = r.err
     /\ ~last'.ok => /\ err' = err
                      /\ last'.kind # ""

\* wait() returns only with an invocation that succeeded, made after update
\* returned true, and goes on polling after one that failed.
WaitsForSuccess ==
  /\ (retry.mode = "wait" /\ retry'.mode = "none")
       => /\ retry.updated
          /\ last'.op = "wait" /\ last'.ok /\ last'.called
          /\ last'.function_name = err.function_name
          /\ err' = NoErr
  /\ (retry.mode = "wait" /\ retry.updated /\ retry'.mode = "wait")
       => /\ ~last'.ok /\ ~last'.called
          /\ ~retry'.updated
          /\ err' = err

\* The failed invocation that is retried holds no root while retry() or wait()
\* polls.
WaitsOutsideRootScope ==
  retry.mode # "none" => \A h \in Handles : RefsIn(err.args, h) = 0

\* C22 (as stated): retry() on a success returns it unchanged without invoking
\* anything; retry() on an error invokes the same function with the same
\* arguments exactly once, and only after update() has returned true since the
\* failure; wait() returns only the output of a successful invocation and goes
\* on while every attempt fails; and the waiting is done outside any root
\* scope (a field pointer is never held between two operations).
RetryAsStated ==
  /\ [][SuccessGivenBack /\ PollsUntilUpdated /\ InvokedOnceAgain /\ WaitsForSuccess]_vars
  /\ []WaitsOutsideRootScope

\* C22 (the part the code keeps): retry() on a success returns it unchanged
\* without invoking anything; retry() on an error invokes the same function
\* with the same arguments exactly once, and only after update() has returned
\* true since the failure; wait() returns only the output of a successful
\* invocation and goes on while every attempt fails.
RetryPolicy ==
  [][SuccessGivenBack /\ PollsUntilUpdated /\ InvokedOnceAgain /\ WaitsForSuccess]_vars

\* wait() has returned the struct that late, a function of the second version,
\* was passed: the invocation had failed under the first version, and the
\* reload that mended it migrated the object.
RetryPolicyWitness ==
  /\ retry.mode = "none"
  /\ last.op = "wait" /\ last.ok /\ last.called
  /\ last.function_name = "late"
  /\ version = 2
  /\ last.out.ty = "StructRef"
  /\ gc.objects[last.out.val].ty = FooTy2
  /\ refs[last.out.val] = 1
====
